---- MODULE Spec2Model ----
(***************************************************************************)
(* A model of the soccer simulation: the engine's per-frame update         *)
(* (GameEngine._update), the kickoff state machine, the two TeamManagers,  *)
(* the Ball and Player kinematics and the GoalDetector.                    *)
(*                                                                         *)
(* Numbers.  The program computes in float64; the model computes in fixed  *)
(* point: lengths in centimetres, speeds in cm/s, times in milliseconds,   *)
(* energy in hundredths of a percent, impulses in milli-newton-seconds.    *)
(* Quotients truncate toward zero (Div) and square roots round down        *)
(* (ISqrt).                                                                *)
(***************************************************************************)
EXTENDS Integers, Sequences, FiniteSets, TLC

(***************************************************************************)
(* Bounds of the model (not program constants).                            *)
(***************************************************************************)
\* unpaused ticks explored per match (since construction or the last reset)
MaxTicks == 64
\* keys pressed per run (pause, speed up, slow down, reset; resuming a
\* paused game is not counted)
MaxKeys == 2
\* the speed keys are pressed within this many ticks of the start of a match
SpeedKeyWindow == 0
\* player updates that raise per run
MaxFaults == 1
\* the tick counter of the unbounded run wraps at this value
TickWrap == 2
\* goals checked per run of the goal detector on its own
MaxGoals == 2

\* Ball.update calls made on a ball driven on its own
MaxCalls == 70

\* update_team_ai calls made on teams driven on their own
MaxTeamCalls == 2

\* players of a roster the kickoff selection is tried on
MaxRoster == 4

\* Ball.kick calls made between two updates
MaxKicks == 3

\* ms of GoalDetector.update followed after a goal
MaxQuiet == 5000

\* learn_from_experience calls made with one tuple
MaxLearn == 130

\* experiences learned between saves and loads
MaxExperience == 2

(***************************************************************************)
(* Program constants, in the model's units.                                *)
(***************************************************************************)
FIELD_LENGTH == 10500
FIELD_WIDTH == 6800
GOAL_WIDTH == 732
BALL_RADIUS == 11
BALL_MASS == 43
BALL_FRICTION == 70
BALL_BOUNCE == 6
BALL_MIN_SPEED == 10
BALL_MAX_VELOCITY == 3000
PLAYER_RADIUS == 40
PLAYER_ACCELERATION == 800
PLAYER_DECELERATION == 1200
MAX_ENERGY == 10000
MIN_ENERGY_FACTOR == 3000
ENERGY_RECOVERY == 2000
SLOW_SPEED == 200
KICK_REACH == 50
MAX_KICK_FORCE == 15000
ARRIVE_DIST_SQ == 2500
BALL_INTERACT_DIST == 120
POSSESSION_DIST == 200
CHASE_DIST == 500
RETRIEVAL_COOLDOWN == 2000
KICKOFF_PREPARATION_TIME == 2000
KICKOFF_PASS_DELAY == 1000
KICKOFF_ACTIVE_TIME == 1000
KICKOFF_END_SPEED == 200
INITIAL_KICKOFF_TIMER == -1000
CELEBRATION_DURATION == 3000
GOAL_LINE_INSET == 100
GOAL_WIDTH_BUFFER == 50
CENTER_LINE_BUFFER == 500
OPPONENT_GOAL_X == 5200

(***************************************************************************)
(* Fixed-point arithmetic.                                                 *)
(***************************************************************************)
Abs(a) == IF a < 0 THEN -a ELSE a

Sign(a) == IF a > 0 THEN 1 ELSE -1

Min(a, b) == IF a < b THEN a ELSE b

Max(a, b) == IF a > b THEN a ELSE b

Clamp(lo, hi, a) == Max(lo, Min(hi, a))

\* a / b truncated toward zero (b > 0)
Div(a, b) == IF a >= 0 THEN a \div b ELSE -((-a) \div b)

RECURSIVE SqrtIter(_, _)
SqrtIter(n, x) ==
    LET y == (x + n \div x) \div 2
    IN IF y >= x THEN x ELSE SqrtIter(n, y)

\* floor of the square root of n >= 0 (Newton's iteration from above)
ISqrt(n) ==
    IF n < 2 THEN n
    ELSE SqrtIter(n, IF n < 10000 THEN 100
                     ELSE IF n < 1000000 THEN 1000
                     ELSE IF n < 100000000 THEN 10000
                     ELSE 46340)

\* math.sqrt(dx ** 2 + dy ** 2)
Hypot(dx, dy) == ISqrt(dx * dx + dy * dy)

(***************************************************************************)
(* Formations (FormationManager._create_standard_formations).             *)
(***************************************************************************)
ROLES == <<"goalkeeper", "defender", "midfielder", "forward">>

StandardFormations ==
    [f \in {"4-4-2", "4-3-3", "3-5-2"} |->
        CASE f = "4-4-2" ->
               [goalkeeper |-> << <<-4500, 0>> >>,
                defender   |-> << <<-3500, -1500>>, <<-3500, -500>>,
                                  <<-3500, 500>>, <<-3500, 1500>> >>,
                midfielder |-> << <<-1500, -1800>>, <<-1500, -600>>,
                                  <<-1500, 600>>, <<-1500, 1800>> >>,
                forward    |-> << <<-500, -800>>, <<-500, 800>> >>]
          [] f = "4-3-3" ->
               [goalkeeper |-> << <<-4500, 0>> >>,
                defender   |-> << <<-3500, -1500>>, <<-3500, -500>>,
                                  <<-3500, 500>>, <<-3500, 1500>> >>,
                midfielder |-> << <<-2000, -1200>>, <<-2000, 0>>,
                                  <<-2000, 1200>> >>,
                forward    |-> << <<-500, -1500>>, <<-500, 0>>,
                                  <<-500, 1500>> >>]
          [] OTHER ->
               [goalkeeper |-> << <<-4500, 0>> >>,
                defender   |-> << <<-3500, -1000>>, <<-3500, 0>>,
                                  <<-3500, 1000>> >>,
                midfielder |-> << <<-2500, -2000>>, <<-2500, -1000>>,
                                  <<-2500, 0>>, <<-2500, 1000>>,
                                  <<-2500, 2000>> >>,
                forward    |-> << <<-800, -800>>, <<-800, 800>> >>]]

\* FormationManager.get_formation: an unknown name falls back to 4-4-2
get_formation(name) ==
    IF name \in DOMAIN StandardFormations
    THEN StandardFormations[name] ELSE StandardFormations["4-4-2"]

\* Formation.get_positions_for_team mirroring the away side across the
\* halfway line only
get_positions_for_team_flip_x(positions, team) ==
    IF team = "home" THEN positions
    ELSE [r \in DOMAIN positions |->
            [i \in 1..Len(positions[r]) |->
                <<-positions[r][i][1], positions[r][i][2]>>]]

\* Formation.get_positions_for_team: home as stored, away point-mirrored
get_positions_for_team(positions, team) ==
    IF team = "home" THEN positions
    ELSE [r \in DOMAIN positions |->
            [i \in 1..Len(positions[r]) |->
                <<-positions[r][i][1], -positions[r][i][2]>>]]

(***************************************************************************)
(* Players (Player.__init__, TeamManager._create_team).                    *)
(***************************************************************************)
\* Player._get_max_speed_for_role
MaxSpeedForRole(role) ==
    CASE role = "goalkeeper" -> 600
      [] role = "defender" -> 700
      [] role = "midfielder" -> 850
      [] role = "forward" -> 900
      [] OTHER -> 750

PlayerId(team, n) == (IF team = "home" THEN "H" ELSE "A") \o ToString(n)

NewPlayer(id, role, x, y) ==
    [id |-> id, role |-> role, x |-> x, y |-> y, vx |-> 0, vy |-> 0,
     tx |-> x, ty |-> y, energy |-> MAX_ENERGY, action |-> "idle"]

\* the formation's slots in roster order: role after role, slot after slot
RosterSlots(positions) ==
    LET SlotsOf(r) == [i \in 1..Len(positions[r]) |->
                          [role |-> r, pos |-> positions[r][i]]]
    IN SlotsOf(ROLES[1]) \o SlotsOf(ROLES[2]) \o SlotsOf(ROLES[3])
           \o SlotsOf(ROLES[4])

create_team(team, formation_name) ==
    LET slots == RosterSlots(get_positions_for_team(
                     get_formation(formation_name), team))
    IN [n \in 1..Len(slots) |->
           NewPlayer(PlayerId(team, n), slots[n].role,
                     slots[n].pos[1], slots[n].pos[2])]

\* TeamManager.__init__
NewTeam(team, formation_name) ==
    [team_name |-> team, formation_name |-> formation_name,
     players |-> create_team(team, formation_name),
     in_possession |-> FALSE, ball_carrier |-> 0,
     since_retrieval |-> 2 * RETRIEVAL_COOLDOWN]

\* same_role_players.index(player), counted from 1
RoleIndex(players, i) ==
    Cardinality({j \in 1..i : players[j].role = players[i].role})

\* Player.set_target
set_target(p, x, y) == [p EXCEPT !.tx = x, !.ty = y, !.action = "moving"]

\* squared distance from a player to a point; the program compares
\* math.sqrt of it with a threshold d, the model compares it with d * d
DistSq(p, x, y) == (x - p.x) * (x - p.x) + (y - p.y) * (y - p.y)

(***************************************************************************)
(* Player kinematics (src/src/entities/player.py).                         *)
(***************************************************************************)
\* (min_x, max_x, min_y, max_y): FieldRenderer.get_field_bounds
FieldBounds ==
    [min_x |-> -(FIELD_LENGTH \div 2), max_x |-> FIELD_LENGTH \div 2,
     min_y |-> -(FIELD_WIDTH \div 2), max_y |-> FIELD_WIDTH \div 2]

\* max(0.3, energy / 100.0), in ten-thousandths
EnergyFactor(p) == Max(MIN_ENERGY_FACTOR, p.energy)

\* one velocity component stepped toward `want` by at most `step`
Approach(v, want, step) ==
    IF Abs(want - v) > step
    THEN v + step * (IF want - v > 0 THEN 1 ELSE -1)
    ELSE want

\* Player.move_towards_target
move_towards_target(p, dt) ==
    LET dx == p.tx - p.x
        dy == p.ty - p.y
        distance_squared == dx * dx + dy * dy
    IN IF distance_squared > ARRIVE_DIST_SQ
       THEN LET distance == ISqrt(distance_squared)
                desired_speed ==
                    Min(Div(MaxSpeedForRole(p.role) * EnergyFactor(p), MAX_ENERGY),
                        distance * 2)
                desired_velocity_x == Div(dx * desired_speed, distance)
                desired_velocity_y == Div(dy * desired_speed, distance)
                acceleration == Div(PLAYER_ACCELERATION * dt, 1000)
            IN [p EXCEPT
                  !.vx = Approach(p.vx, desired_velocity_x, acceleration),
                  !.vy = Approach(p.vy, desired_velocity_y, acceleration)]
       ELSE LET deceleration == Div(PLAYER_DECELERATION * dt, 1000)
            IN [p EXCEPT !.vx = Approach(p.vx, 0, deceleration),
                         !.vy = Approach(p.vy, 0, deceleration)]

\* Player.update: energy, integration, clamp into the field
PlayerUpdate(p, dt) ==
    LET speed_sq == p.vx * p.vx + p.vy * p.vy
        energy == IF speed_sq < SLOW_SPEED * SLOW_SPEED
                  THEN Min(MAX_ENERGY, p.energy + Div(ENERGY_RECOVERY * dt, 1000))
                  ELSE Max(0, p.energy - Div(ISqrt(speed_sq) * 2 * dt, 1000))
        x == p.x + Div(p.vx * dt, 1000)
        y == p.y + Div(p.vy * dt, 1000)
    IN [p EXCEPT
          !.energy = energy,
          !.x = Max(FieldBounds.min_x + PLAYER_RADIUS,
                    Min(FieldBounds.max_x - PLAYER_RADIUS, x)),
          !.y = Max(FieldBounds.min_y + PLAYER_RADIUS,
                    Min(FieldBounds.max_y - PLAYER_RADIUS, y))]

(***************************************************************************)
(* The ball (src/src/entities/ball.py).                                    *)
(***************************************************************************)
NoPlayer == "None"

NewBall == [x |-> 0, y |-> 0, vx |-> 0, vy |-> 0, last_touched_by |-> NoPlayer]

SpeedSq(b) == b.vx * b.vx + b.vy * b.vy

\* Ball.get_speed
get_speed(b) == ISqrt(SpeedSq(b))

\* Ball.update without the repositioning at the walls
BallUpdateNoReposition(b, dt) ==
    LET speed == get_speed(b)
        speed_reduction == Min(Div(BALL_FRICTION * dt, 1000), speed)
        moving == SpeedSq(b) > BALL_MIN_SPEED * BALL_MIN_SPEED
        vx1 == IF moving THEN Div(b.vx * (speed - speed_reduction), speed) ELSE 0
        vy1 == IF moving THEN Div(b.vy * (speed - speed_reduction), speed) ELSE 0
        x1 == b.x + Div(vx1 * dt, 1000)
        y1 == b.y + Div(vy1 * dt, 1000)
        hitx == x1 - BALL_RADIUS < FieldBounds.min_x
                   \/ x1 + BALL_RADIUS > FieldBounds.max_x
        hity == y1 - BALL_RADIUS < FieldBounds.min_y
                   \/ y1 + BALL_RADIUS > FieldBounds.max_y
    IN [b EXCEPT
          !.x = x1,
          !.vx = IF hitx THEN Div(-vx1 * BALL_BOUNCE, 10) ELSE vx1,
          !.y = y1,
          !.vy = IF hity THEN Div(-vy1 * BALL_BOUNCE, 10) ELSE vy1]

\* Ball.update with the friction of a frame never limited to the speed left
BallUpdateUncapped(b, dt) ==
    LET speed == get_speed(b)
        speed_reduction == Div(BALL_FRICTION * dt, 1000)
        moving == SpeedSq(b) > BALL_MIN_SPEED * BALL_MIN_SPEED
        vx1 == IF moving THEN Div(b.vx * (speed - speed_reduction), speed) ELSE 0
        vy1 == IF moving THEN Div(b.vy * (speed - speed_reduction), speed) ELSE 0
        x1 == b.x + Div(vx1 * dt, 1000)
        y1 == b.y + Div(vy1 * dt, 1000)
        hitx == x1 - BALL_RADIUS < FieldBounds.min_x
                   \/ x1 + BALL_RADIUS > FieldBounds.max_x
        hity == y1 - BALL_RADIUS < FieldBounds.min_y
                   \/ y1 + BALL_RADIUS > FieldBounds.max_y
    IN [b EXCEPT
          !.x = IF x1 - BALL_RADIUS < FieldBounds.min_x
                THEN FieldBounds.min_x + BALL_RADIUS
                ELSE IF x1 + BALL_RADIUS > FieldBounds.max_x
                THEN FieldBounds.max_x - BALL_RADIUS ELSE x1,
          !.vx = IF hitx THEN Div(-vx1 * BALL_BOUNCE, 10) ELSE vx1,
          !.y = IF y1 - BALL_RADIUS < FieldBounds.min_y
                THEN FieldBounds.min_y + BALL_RADIUS
                ELSE IF y1 + BALL_RADIUS > FieldBounds.max_y
                THEN FieldBounds.max_y - BALL_RADIUS ELSE y1,
          !.vy = IF hity THEN Div(-vy1 * BALL_BOUNCE, 10) ELSE vy1]

\* Ball.update: friction, integration, bounce off the field bounds
BallUpdate(b, dt) ==
    LET speed == get_speed(b)
        friction_force == Div(BALL_FRICTION * dt, 1000)
        speed_reduction == Min(friction_force, speed)
        moving == SpeedSq(b) > BALL_MIN_SPEED * BALL_MIN_SPEED
        vx1 == IF moving THEN Div(b.vx * (speed - speed_reduction), speed) ELSE 0
        vy1 == IF moving THEN Div(b.vy * (speed - speed_reduction), speed) ELSE 0
        x1 == b.x + Div(vx1 * dt, 1000)
        y1 == b.y + Div(vy1 * dt, 1000)
        hitx == x1 - BALL_RADIUS < FieldBounds.min_x
                   \/ x1 + BALL_RADIUS > FieldBounds.max_x
        hity == y1 - BALL_RADIUS < FieldBounds.min_y
                   \/ y1 + BALL_RADIUS > FieldBounds.max_y
    IN [b EXCEPT
          !.x = IF x1 - BALL_RADIUS < FieldBounds.min_x
                THEN FieldBounds.min_x + BALL_RADIUS
                ELSE IF x1 + BALL_RADIUS > FieldBounds.max_x
                THEN FieldBounds.max_x - BALL_RADIUS ELSE x1,
          !.vx = IF hitx THEN Div(-vx1 * BALL_BOUNCE, 10) ELSE vx1,
          !.y = IF y1 - BALL_RADIUS < FieldBounds.min_y
                THEN FieldBounds.min_y + BALL_RADIUS
                ELSE IF y1 + BALL_RADIUS > FieldBounds.max_y
                THEN FieldBounds.max_y - BALL_RADIUS ELSE y1,
          !.vy = IF hity THEN Div(-vy1 * BALL_BOUNCE, 10) ELSE vy1]

\* Ball.kick with each velocity component capped on its own
BallKickPerAxis(b, force_x, force_y, kicker_id) ==
    LET vx1 == b.vx + Div(force_x * 10, BALL_MASS)
        vy1 == b.vy + Div(force_y * 10, BALL_MASS)
    IN [b EXCEPT
          !.vx = Clamp(-BALL_MAX_VELOCITY, BALL_MAX_VELOCITY, vx1),
          !.vy = Clamp(-BALL_MAX_VELOCITY, BALL_MAX_VELOCITY, vy1),
          !.last_touched_by = kicker_id]

\* Ball.kick: impulse / mass added to the velocity, speed capped at 30 m/s
BallKick(b, force_x, force_y, kicker_id) ==
    LET vx1 == b.vx + Div(force_x * 10, BALL_MASS)
        vy1 == b.vy + Div(force_y * 10, BALL_MASS)
        current_speed == Hypot(vx1, vy1)
        capped == vx1 * vx1 + vy1 * vy1 > BALL_MAX_VELOCITY * BALL_MAX_VELOCITY
    IN [b EXCEPT
          !.vx = IF capped THEN Div(vx1 * BALL_MAX_VELOCITY, current_speed) ELSE vx1,
          !.vy = IF capped THEN Div(vy1 * BALL_MAX_VELOCITY, current_speed) ELSE vy1,
          !.last_touched_by = kicker_id]

\* Ball.set_position(0.0, 0.0); Ball.stop()
BallToCenter(b) == [b EXCEPT !.x = 0, !.y = 0, !.vx = 0, !.vy = 0]

\* a kicking range without the extra half metre
CanKickTouching(p, b) ==
    DistSq(p, b.x, b.y) <= (PLAYER_RADIUS + BALL_RADIUS) * (PLAYER_RADIUS + BALL_RADIUS)

\* Player.kick_ball: whether the ball is within kicking range
CanKick(p, b) ==
    DistSq(p, b.x, b.y) <= (PLAYER_RADIUS + BALL_RADIUS + KICK_REACH)
                              * (PLAYER_RADIUS + BALL_RADIUS + KICK_REACH)

\* Player.kick_ball, the ball's side: the impulse toward the target
\* (power in tenths)
KickBallBall(p, b, target_x, target_y, power) ==
    LET kick_direction_x == target_x - b.x
        kick_direction_y == target_y - b.y
        kick_magnitude == Hypot(kick_direction_x, kick_direction_y)
        kick_force == Div(Div(MAX_KICK_FORCE * power, 10) * EnergyFactor(p),
                          MAX_ENERGY)
    IN IF ~CanKick(p, b) THEN b
       ELSE IF kick_magnitude > 0
       THEN BallKick(b, Div(kick_direction_x * kick_force, kick_magnitude),
                     Div(kick_direction_y * kick_force, kick_magnitude), p.id)
       ELSE BallKick(b, 0, 0, p.id)

\* Player.kick_ball without a target: the impulse in the facing direction
\* (a unit vector in thousandths)
KickBallFacing(p, b, facing, power) ==
    LET kick_force == Div(Div(MAX_KICK_FORCE * power, 10) * EnergyFactor(p),
                          MAX_ENERGY)
    IN IF ~CanKick(p, b) THEN b
       ELSE BallKick(b, Div(facing[1] * kick_force, 1000),
                     Div(facing[2] * kick_force, 1000), p.id)

\* Player.kick_ball, the player's side: energy spent and the action tag
KickBallPlayer(p, b, power) ==
    IF ~CanKick(p, b) THEN p
    ELSE [p EXCEPT !.energy = Max(0, p.energy - 50 * power),
                   !.action = "kicking"]

(***************************************************************************)
(* The team coordinator (src/game/team/team_manager.py).                   *)
(***************************************************************************)
\* the first index of `players` at minimal distance from (x, y), as the
\* loops with a strict `distance < closest_distance` find it; 0 if none
RECURSIVE ClosestFrom(_, _, _, _, _, _, _)
ClosestFrom(players, eligible, x, y, i, best, best_sq) ==
    IF i > Len(players) THEN best
    ELSE LET d == DistSq(players[i], x, y)
         IN IF i \in eligible /\ (best = 0 \/ d < best_sq)
            THEN ClosestFrom(players, eligible, x, y, i + 1, i, d)
            ELSE ClosestFrom(players, eligible, x, y, i + 1, best, best_sq)

Closest(players, eligible, x, y) == ClosestFrom(players, eligible, x, y, 1, 0, 0)

Indices(players) == 1..Len(players)

Outfield(players) == {i \in Indices(players) : players[i].role # "goalkeeper"}

\* the distance of the closest player of a roster, squared
ClosestDistSq(players, x, y) ==
    DistSq(players[Closest(players, Indices(players), x, y)], x, y)

\* whether the closest of all players is one of ours: our players are
\* scanned first, so an opponent wins only when strictly closer
ClosestIsOurs(team, opponent_players, b) ==
    ClosestDistSq(team.players, b.x, b.y)
        <= ClosestDistSq(opponent_players, b.x, b.y)

\* a possession update that looks at the team's own players only
update_possession_status_own(team, b, opponent_players) ==
    LET ours == Closest(team.players, Indices(team.players), b.x, b.y)
    IN IF ClosestDistSq(team.players, b.x, b.y) < POSSESSION_DIST * POSSESSION_DIST
       THEN [team EXCEPT !.in_possession = TRUE, !.ball_carrier = ours]
       ELSE [team EXCEPT !.in_possession = FALSE, !.ball_carrier = 0]

\* TeamManager._update_possession_status
update_possession_status(team, b, opponent_players) ==
    LET ours == Closest(team.players, Indices(team.players), b.x, b.y)
        closest_sq == Min(ClosestDistSq(team.players, b.x, b.y),
                          ClosestDistSq(opponent_players, b.x, b.y))
    IN IF closest_sq < POSSESSION_DIST * POSSESSION_DIST
             /\ ClosestIsOurs(team, opponent_players, b)
       THEN [team EXCEPT !.in_possession = TRUE, !.ball_carrier = ours]
       ELSE [team EXCEPT !.in_possession = FALSE, !.ball_carrier = 0]

\* the wall clock has run 2 * retrieval_cooldown since the last trigger
CooldownOver(team) == team.since_retrieval >= 2 * RETRIEVAL_COOLDOWN

\* a retrieval check gated by retrieval_cooldown itself, not twice it
check_ball_retrieval_needed_short(team, b, opponent_players) ==
    LET closest_sq == ClosestDistSq(team.players, b.x, b.y)
        near_edge == Abs(b.x) > 4500 \/ Abs(b.y) > 3000
    IN /\ team.since_retrieval >= RETRIEVAL_COOLDOWN
       /\ ~(SpeedSq(b) > 100 * 100)
       /\ ClosestIsOurs(team, opponent_players, b)
       /\ \/ closest_sq > 1200 * 1200 /\ SpeedSq(b) < 10 * 10
          \/ near_edge /\ closest_sq > 800 * 800 /\ SpeedSq(b) < 50 * 50

\* TeamManager._check_ball_retrieval_needed: the returned flag
check_ball_retrieval_needed(team, b, opponent_players) ==
    LET closest_sq == ClosestDistSq(team.players, b.x, b.y)
        near_edge == Abs(b.x) > 4500 \/ Abs(b.y) > 3000
    IN /\ CooldownOver(team)
       /\ ~(SpeedSq(b) > 100 * 100)
       /\ ClosestIsOurs(team, opponent_players, b)
       /\ \/ closest_sq > 1200 * 1200 /\ SpeedSq(b) < 10 * 10
          \/ near_edge /\ closest_sq > 800 * 800 /\ SpeedSq(b) < 50 * 50

\* self.formation.get_positions_for_team(self.team_name), tabulated
TeamPositions ==
    [f \in DOMAIN StandardFormations |->
        [t \in {"home", "away"} |-> get_positions_for_team(get_formation(f), t)]]

\* the slot of player i in its team's formation: the position at its role
\* index, << >> when the formation has no slot for it
BaseSlot(team, i) ==
    LET role_positions ==
            TeamPositions[team.formation_name][team.team_name][team.players[i].role]
        player_index == RoleIndex(team.players, i)
    IN IF player_index <= Len(role_positions)
       THEN role_positions[player_index] ELSE << >>

\* a formation target without the safety rectangle
FormationTargetUnclamped(team, i, ball_x, ball_y, ball_needs_retrieval) ==
    LET p == team.players[i]
        base == BaseSlot(team, i)
        base_x == base[1]
        base_y == base[2]
        retriever == Closest(team.players, Outfield(team.players), ball_x, ball_y)
        ball_distance_sq == (ball_x - base_x) * (ball_x - base_x)
                               + (ball_y - base_y) * (ball_y - base_y)
        should_chase_ball ==
            /\ ~ball_needs_retrieval
            /\ ball_distance_sq < 1500 * 1500
            /\ (team.in_possession \/ ball_distance_sq < 800 * 800)
        target_x == IF should_chase_ball
                    THEN Div(base_x * 2 + ball_x * 8, 10)
                    ELSE Div(base_x * 9 + ball_x, 10)
        target_y == IF should_chase_ball
                    THEN Div(base_y * 2 + ball_y * 8, 10)
                    ELSE Div(base_y * 9 + ball_y, 10)
    IN IF ball_needs_retrieval /\ i = retriever
       THEN set_target(p, ball_x, ball_y)
       ELSE IF base = << >> THEN p
       ELSE IF p.role # "goalkeeper"
       THEN set_target(p, target_x, target_y)
       ELSE set_target(p, base_x, Clamp(-800, 800, Div(ball_y, 2)))

\* TeamManager.update_formation_positions, for one player: the retriever
\* goes to the ball, a goalkeeper tracks the ball's y on its line, the
\* others blend their slot with the ball position
FormationTarget(team, i, ball_x, ball_y, ball_needs_retrieval) ==
    LET p == team.players[i]
        base == BaseSlot(team, i)
        base_x == base[1]
        base_y == base[2]
        retriever == Closest(team.players, Outfield(team.players), ball_x, ball_y)
        ball_distance_sq == (ball_x - base_x) * (ball_x - base_x)
                               + (ball_y - base_y) * (ball_y - base_y)
        should_chase_ball ==
            /\ ~ball_needs_retrieval
            /\ ball_distance_sq < 1500 * 1500
            /\ (team.in_possession \/ ball_distance_sq < 800 * 800)
        target_x == IF should_chase_ball
                    THEN Div(base_x * 2 + ball_x * 8, 10)
                    ELSE Div(base_x * 9 + ball_x, 10)
        target_y == IF should_chase_ball
                    THEN Div(base_y * 2 + ball_y * 8, 10)
                    ELSE Div(base_y * 9 + ball_y, 10)
    IN IF ball_needs_retrieval /\ i = retriever
       THEN set_target(p, ball_x, ball_y)
       ELSE IF base = << >> THEN p
       ELSE IF p.role # "goalkeeper"
       THEN set_target(p, Clamp(-5000, 5000, target_x), Clamp(-3000, 3000, target_y))
       ELSE set_target(p, base_x, Clamp(-800, 800, Div(ball_y, 2)))

update_formation_positions(team, ball_x, ball_y, ball_needs_retrieval) ==
    [team EXCEPT !.players =
        [i \in Indices(team.players) |->
            FormationTarget(team, i, ball_x, ball_y, ball_needs_retrieval)]]

\* TeamManager._move_to_formation_position_simple: the FIRST slot of the
\* player's role
move_to_formation_position_simple(team, p) ==
    LET default_pos == TeamPositions[team.formation_name][team.team_name][p.role]
    IN IF Len(default_pos) > 0
       THEN set_target(p, default_pos[1][1], default_pos[1][2]) ELSE p

\* a kickoff behaviour that holds the opposing team at the center line
\* itself, without the buffer
KickoffTargetNoBuffer(team, p, info, b) ==
    LET team_side == IF team.team_name = "away" THEN 1 ELSE -1
    IN IF info.team = team.team_name
       THEN IF info.state \in {"preparing", "ready"}
                 /\ DistSq(p, b.x, b.y) > 500 * 500
            THEN move_to_formation_position_simple(team, p)
            ELSE p
       ELSE IF \/ team_side > 0 /\ p.x < 0
               \/ team_side < 0 /\ p.x > 0
            THEN set_target(p, team_side * CENTER_LINE_BUFFER,
                            Clamp(-2500, 2500, p.y))
            ELSE p

\* TeamManager._handle_kickoff_behavior, for one player
KickoffTarget(team, p, info, b) ==
    LET team_side == IF team.team_name = "away" THEN 1 ELSE -1
    IN IF info.team = team.team_name
       THEN IF info.state \in {"preparing", "ready"}
                 /\ DistSq(p, b.x, b.y) > 500 * 500
            THEN move_to_formation_position_simple(team, p)
            ELSE p
       ELSE IF \/ team_side > 0 /\ p.x < CENTER_LINE_BUFFER
               \/ team_side < 0 /\ p.x > -CENTER_LINE_BUFFER
            THEN set_target(p, team_side * CENTER_LINE_BUFFER,
                            Clamp(-2500, 2500, p.y))
            ELSE p

handle_kickoff_behavior(team, info, b) ==
    [team EXCEPT !.players =
        [i \in Indices(team.players) |-> KickoffTarget(team, team.players[i], info, b)]]

\* TeamManager._handle_ball_interaction: the kick a player of this team
\* makes, by role (power in tenths); hashmod is hash(player_id) % 5
InteractionKick(team, p, b, hashmod) ==
    LET opponent_goal_x == IF team.team_name = "home"
                           THEN OPPONENT_GOAL_X ELSE -OPPONENT_GOAL_X
    IN IF p.role = "goalkeeper"
       THEN [x |-> Div(opponent_goal_x, 2),
             y |-> b.y + (IF b.y > 0 THEN -1000 ELSE 1000), power |-> 9]
       ELSE IF p.role = "forward"
       THEN [x |-> opponent_goal_x, y |-> (hashmod[p.id] - 2) * 150,
             power |-> 10]
       ELSE IF Abs(b.x - opponent_goal_x) < 2500
       THEN [x |-> opponent_goal_x, y |-> Div(b.y, 2), power |-> 10]
       ELSE [x |-> b.x + Div(opponent_goal_x - b.x, 2),
             y |-> Div(b.y * 7, 10), power |-> 8]

\* whether the player takes the ball-interaction branch of _update_player_ai
Interacts(p, b) == DistSq(p, b.x, b.y) < BALL_INTERACT_DIST * BALL_INTERACT_DIST

\* TeamManager._update_player_ai, the player's side
update_player_ai(team, p, dt, b, ball_needs_retrieval, hashmod) ==
    IF Interacts(p, b)
    THEN KickBallPlayer(p, b, InteractionKick(team, p, b, hashmod).power)
    ELSE IF ball_needs_retrieval
             \/ (DistSq(p, b.x, b.y) < CHASE_DIST * CHASE_DIST
                    /\ p.role \in {"forward", "midfielder"})
    THEN move_towards_target(set_target(p, b.x, b.y), dt)
    ELSE move_towards_target(p, dt)

\* TeamManager._update_player_ai, the ball's side
PlayerKick(team, p, b, hashmod) ==
    IF Interacts(p, b)
    THEN LET k == InteractionKick(team, p, b, hashmod)
         IN KickBallBall(p, b, k.x, k.y, k.power)
    ELSE b

(***************************************************************************)
(* A fault is a player whose step raises during a team update:             *)
(* [idx |-> roster index (0: nobody), where |-> "ai" or "physics"].        *)
(***************************************************************************)
NoFault == [idx |-> 0, where |-> "none"]

\* The per-player loop of a normal tick.  A raise inside _update_player_ai
\* is caught there (the player's decision is skipped, Player.update still
\* runs); a raise in Player.update leaves the loop through update_team_ai's
\* handler, so the players after it are not stepped at all.
NormalStep(team, i, dt, b, ball_needs_retrieval, hashmod, fault) ==
    LET p == team.players[i]
        aborted == fault.where = "physics" /\ fault.idx # 0 /\ i > fault.idx
        decided == IF fault.idx = i /\ fault.where = "ai" THEN p
                   ELSE update_player_ai(team, p, dt, b, ball_needs_retrieval, hashmod)
    IN IF aborted THEN p
       ELSE IF fault.idx = i /\ fault.where = "physics" THEN decided
       ELSE PlayerUpdate(decided, dt)

\* The per-player loop of a kickoff tick: nothing catches per player, so
\* any raise ends the loop.
KickoffStep(team, i, dt, fault) ==
    LET p == team.players[i]
    IN IF fault.idx # 0 /\ i > fault.idx THEN p
       ELSE IF fault.idx = i /\ fault.where = "ai" THEN p
       ELSE IF fault.idx = i THEN move_towards_target(p, dt)
       ELSE PlayerUpdate(move_towards_target(p, dt), dt)

\* the kicks of players i..n of a normal tick, in roster order
RECURSIVE KickFold(_, _, _, _, _)
KickFold(team, i, b, hashmod, fault) ==
    IF i > Len(team.players) THEN b
    ELSE IF fault.where = "physics" /\ fault.idx # 0 /\ i > fault.idx THEN b
    ELSE IF fault.idx = i /\ fault.where = "ai"
    THEN KickFold(team, i + 1, b, hashmod, fault)
    ELSE KickFold(team, i + 1, PlayerKick(team, team.players[i], b, hashmod),
                  hashmod, fault)

\* TeamManager.update_team_ai in a kickoff tick, after
\* _handle_kickoff_behavior: the players only move
kickoff_team_tick(t1, dt, b, fault) ==
    [team |-> [t1 EXCEPT !.players =
                  [i \in Indices(t1.players) |-> KickoffStep(t1, i, dt, fault)]],
     ball |-> b, retrieval |-> FALSE]

\* TeamManager.update_team_ai in a normal tick, the per-player loop: each
\* player decides, possibly kicks, and is integrated
player_loop(t3, dt, b, ball_needs_retrieval, hashmod, fault) ==
    [team |-> [t3 EXCEPT !.players =
                  [i \in Indices(t3.players) |->
                      NormalStep(t3, i, dt, b, ball_needs_retrieval,
                                 hashmod, fault)]],
     ball |-> KickFold(t3, 1, b, hashmod, fault),
     retrieval |-> ball_needs_retrieval]

\* TeamManager.update_team_ai in a normal tick, after the retrieval check:
\* a retrieval that triggers restarts the cooldown, then the formation
\* targets are set and the players are stepped
retrieval_tick(t1, dt, b, ball_needs_retrieval, hashmod, fault) ==
    player_loop(
        update_formation_positions(
            IF ball_needs_retrieval THEN [t1 EXCEPT !.since_retrieval = 0] ELSE t1,
            b.x, b.y, ball_needs_retrieval),
        dt, b, ball_needs_retrieval, hashmod, fault)

\* TeamManager.update_team_ai in a normal tick, after
\* _update_possession_status
normal_team_tick(t1, dt, b, opponent_players, hashmod, fault) ==
    retrieval_tick(t1, dt, b,
                   check_ball_retrieval_needed(t1, b, opponent_players),
                   hashmod, fault)

\* TeamManager.update_team_ai: the team and the ball after it.  `info` is
\* the engine's kickoff_info.  In a kickoff tick the players only move; in
\* a normal tick possession, the retrieval check (which restarts the
\* cooldown when it triggers) and the formation targets come first, then
\* each player decides, possibly kicks, and is integrated.
update_team_ai(team, dt, b, opponent_players, info, hashmod, fault) ==
    IF info.active
    THEN kickoff_team_tick(handle_kickoff_behavior(team, info, b), dt, b, fault)
    ELSE normal_team_tick(update_possession_status(team, b, opponent_players),
                          dt, b, opponent_players, hashmod, fault)

(***************************************************************************)
(* The goal detector (src/game/rules/goal_detector.py).                    *)
(***************************************************************************)
NewGoalDetector ==
    [home_score |-> 0, away_score |-> 0, goals_scored |-> << >>,
     goal_just_scored |-> FALSE, celebration_timer |-> 0]

home_goal_line == -(FIELD_LENGTH \div 2)

away_goal_line == FIELD_LENGTH \div 2

\* a goal zone that leaves out its boundary
ScoringTeamStrict(ball_x, ball_y) ==
    IF Abs(ball_y) < GOAL_WIDTH \div 2 + GOAL_WIDTH_BUFFER
    THEN IF ball_x < home_goal_line + GOAL_LINE_INSET THEN "away"
         ELSE IF ball_x > away_goal_line - GOAL_LINE_INSET THEN "home"
         ELSE "none"
    ELSE "none"

\* GoalDetector.check_goal: the team that scores at this ball position,
\* "none" when no goal
ScoringTeam(ball_x, ball_y) ==
    IF Abs(ball_y) <= GOAL_WIDTH \div 2 + GOAL_WIDTH_BUFFER
    THEN IF ball_x <= home_goal_line + GOAL_LINE_INSET THEN "away"
         ELSE IF ball_x >= away_goal_line - GOAL_LINE_INSET THEN "home"
         ELSE "none"
    ELSE "none"

\* a detector that credits every goal to the home team's score
check_goal_home(gd, ball_x, ball_y, ball_last_touched_by) ==
    LET scoring_team == ScoringTeam(ball_x, ball_y)
        goal == [scoring_team |-> scoring_team,
                 ball_position |-> <<ball_x, ball_y>>,
                 scorer_id |-> ball_last_touched_by]
    IN IF scoring_team = "none" THEN gd
       ELSE [gd EXCEPT
               !.home_score = @ + 1,
               !.goals_scored = Append(@, goal),
               !.goal_just_scored = TRUE,
               !.celebration_timer = CELEBRATION_DURATION]

\* GoalDetector.check_goal: the detector after the call
check_goal(gd, ball_x, ball_y, ball_last_touched_by) ==
    LET scoring_team == ScoringTeam(ball_x, ball_y)
        goal == [scoring_team |-> scoring_team,
                 ball_position |-> <<ball_x, ball_y>>,
                 scorer_id |-> ball_last_touched_by]
    IN IF scoring_team = "none" THEN gd
       ELSE [gd EXCEPT
               !.away_score = IF scoring_team = "away" THEN @ + 1 ELSE @,
               !.home_score = IF scoring_team = "home" THEN @ + 1 ELSE @,
               !.goals_scored = Append(@, goal),
               !.goal_just_scored = TRUE,
               !.celebration_timer = CELEBRATION_DURATION]

\* GoalDetector.update that counts down without stopping at zero
GoalDetectorUpdateNoStop(gd, dt) ==
    IF gd.goal_just_scored
    THEN [gd EXCEPT !.celebration_timer = @ - dt,
                    !.goal_just_scored = gd.celebration_timer - dt > 0]
    ELSE gd

\* GoalDetector.update: the celebration timer
GoalDetectorUpdate(gd, dt) ==
    IF gd.goal_just_scored
    THEN IF gd.celebration_timer - dt <= 0
         THEN [gd EXCEPT !.goal_just_scored = FALSE, !.celebration_timer = 0]
         ELSE [gd EXCEPT !.celebration_timer = @ - dt]
    ELSE gd

\* GoalDetector.reset_match
reset_match(gd) == NewGoalDetector

(***************************************************************************)
(* The engine's kickoff (src/src/engine/game_engine.py).  The world is the *)
(* record [ball, home, away, gd, ko] of the engine's objects; ko is the    *)
(* kickoff: [state, timer, team, kicker, receiver].                        *)
(***************************************************************************)
\* an end of kickoff that keeps the kicker and receiver references
end_kickoff_keep(ko) == [ko EXCEPT !.state = "none", !.timer = 0]

\* GameEngine._end_kickoff
end_kickoff(ko) ==
    [ko EXCEPT !.state = "none", !.timer = 0,
               !.kicker = NoPlayer, !.receiver = NoPlayer]

\* a kickoff pass a tenth as hard
KickoffPassBallSoft(ko, b) ==
    IF ko.kicker = NoPlayer \/ ko.receiver = NoPlayer THEN b
    ELSE BallKick(b, (IF ko.team = "home" THEN 1 ELSE -1) * 400, 100, ko.kicker)

\* GameEngine._execute_kickoff_pass, the ball's side
KickoffPassBall(ko, b) ==
    IF ko.kicker = NoPlayer \/ ko.receiver = NoPlayer THEN b
    ELSE BallKick(b, (IF ko.team = "home" THEN 1 ELSE -1) * 4000, 1000, ko.kicker)

\* GameEngine._execute_kickoff_pass, the kickoff's side
KickoffPassKo(ko) ==
    IF ko.kicker = NoPlayer \/ ko.receiver = NoPlayer THEN end_kickoff(ko) ELSE ko

\* a kickoff that leaves preparing straight for active
update_kickoff_state_skip(ko, b, dt) ==
    LET timer == ko.timer + dt
    IN IF ko.state = "none" THEN ko
       ELSE IF ko.state = "preparing"
       THEN IF timer >= KICKOFF_PREPARATION_TIME
            THEN [ko EXCEPT !.state = "active", !.timer = 0]
            ELSE [ko EXCEPT !.timer = timer]
       ELSE IF ko.state = "ready"
       THEN IF timer >= KICKOFF_PASS_DELAY
            THEN [KickoffPassKo(ko) EXCEPT !.state = "active", !.timer = 0]
            ELSE [ko EXCEPT !.timer = timer]
       ELSE IF timer >= KICKOFF_ACTIVE_TIME
                  \/ SpeedSq(b) > KICKOFF_END_SPEED * KICKOFF_END_SPEED
            THEN end_kickoff(ko)
            ELSE [ko EXCEPT !.timer = timer]

\* a kickoff that compares its timer before adding the tick's dt
update_kickoff_state_late(ko, b, dt) ==
    LET timer == ko.timer + dt
    IN IF ko.state = "none" THEN ko
       ELSE IF ko.state = "preparing"
       THEN IF ko.timer >= KICKOFF_PREPARATION_TIME
            THEN [ko EXCEPT !.state = "ready", !.timer = 0]
            ELSE [ko EXCEPT !.timer = timer]
       ELSE IF ko.state = "ready"
       THEN IF timer >= KICKOFF_PASS_DELAY
            THEN [KickoffPassKo(ko) EXCEPT !.state = "active", !.timer = 0]
            ELSE [ko EXCEPT !.timer = timer]
       ELSE IF timer >= KICKOFF_ACTIVE_TIME
                  \/ SpeedSq(b) > KICKOFF_END_SPEED * KICKOFF_END_SPEED
            THEN end_kickoff(ko)
            ELSE [ko EXCEPT !.timer = timer]

\* a kickoff whose active state ends only when the second has passed and
\* the ball is fast
update_kickoff_state_both(ko, b, dt) ==
    LET timer == ko.timer + dt
    IN IF ko.state = "none" THEN ko
       ELSE IF ko.state = "preparing"
       THEN IF timer >= KICKOFF_PREPARATION_TIME
            THEN [ko EXCEPT !.state = "ready", !.timer = 0]
            ELSE [ko EXCEPT !.timer = timer]
       ELSE IF ko.state = "ready"
       THEN IF timer >= KICKOFF_PASS_DELAY
            THEN [KickoffPassKo(ko) EXCEPT !.state = "active", !.timer = 0]
            ELSE [ko EXCEPT !.timer = timer]
       ELSE IF timer >= KICKOFF_ACTIVE_TIME
                  /\ SpeedSq(b) > KICKOFF_END_SPEED * KICKOFF_END_SPEED
            THEN end_kickoff(ko)
            ELSE [ko EXCEPT !.timer = timer]

\* GameEngine._update_kickoff_state, the kickoff's side
update_kickoff_state(ko, b, dt) ==
    LET timer == ko.timer + dt
    IN IF ko.state = "none" THEN ko
       ELSE IF ko.state = "preparing"
       THEN IF timer >= KICKOFF_PREPARATION_TIME
            THEN [ko EXCEPT !.state = "ready", !.timer = 0]
            ELSE [ko EXCEPT !.timer = timer]
       ELSE IF ko.state = "ready"
       THEN IF timer >= KICKOFF_PASS_DELAY
            THEN [KickoffPassKo(ko) EXCEPT !.state = "active", !.timer = 0]
            ELSE [ko EXCEPT !.timer = timer]
       ELSE IF timer >= KICKOFF_ACTIVE_TIME
                  \/ SpeedSq(b) > KICKOFF_END_SPEED * KICKOFF_END_SPEED
            THEN end_kickoff(ko)
            ELSE [ko EXCEPT !.timer = timer]

\* a kickoff pass struck already when preparing ends
KickoffStateBallEarly(ko, b, dt) ==
    IF ko.state = "preparing" /\ ko.timer + dt >= KICKOFF_PREPARATION_TIME
    THEN KickoffPassBall(ko, b) ELSE b

\* GameEngine._update_kickoff_state, the ball's side: the kickoff pass
KickoffStateBall(ko, b, dt) ==
    IF ko.state = "ready" /\ ko.timer + dt >= KICKOFF_PASS_DELAY
    THEN KickoffPassBall(ko, b) ELSE b

\* the kickoff_info the engine hands to both teams
KickoffInfo(ko) ==
    [active |-> ko.state \in {"preparing", "ready", "active"},
     team |-> ko.team, timer |-> ko.timer, state |-> ko.state]

\* GameEngine._enforce_kickoff_positions, for one opposing player
EnforceKickoffPosition(p, kick_off_team) ==
    LET opposing_side == IF kick_off_team = "home" THEN 1 ELSE -1
    IN IF (opposing_side > 0 /\ p.x < 0) \/ (opposing_side < 0 /\ p.x > 0)
       THEN set_target(p, opposing_side * 500, Clamp(-2500, 2500, p.y))
       ELSE p

\* the roster indices of a role, in roster order
OfRole(players, roles) ==
    SelectSeq([i \in Indices(players) |-> i], LAMBDA i : players[i].role \in roles)

\* a selection that takes the first two midfielders/forwards of the roster,
\* whatever their roles
KickoffPairFirstTwo(players) ==
    LET suitable_players == OfRole(players, {"midfielder", "forward"})
    IN IF Len(suitable_players) < 2 THEN << >>
       ELSE <<suitable_players[1], suitable_players[2]>>

\* GameEngine._setup_kickoff_players: <<kicker, receiver>> as roster
\* indices, << >> when fewer than two midfielders/forwards exist
KickoffPair(players) ==
    LET suitable_players == OfRole(players, {"midfielder", "forward"})
        forwards == OfRole(players, {"forward"})
        midfielders == OfRole(players, {"midfielder"})
    IN IF Len(suitable_players) < 2 THEN << >>
       ELSE IF Len(forwards) >= 2 THEN <<forwards[1], forwards[2]>>
       ELSE IF Len(forwards) >= 1
       THEN <<forwards[1], IF Len(midfielders) > 0 THEN midfielders[1]
                           ELSE suitable_players[2]>>
       ELSE <<suitable_players[1], suitable_players[2]>>

\* GameEngine._setup_kickoff_players
setup_kickoff_players(w, kick_off_team) ==
    LET kicking == IF kick_off_team = "home" THEN w.home ELSE w.away
        opposing == IF kick_off_team = "home" THEN w.away ELSE w.home
        pair == KickoffPair(kicking.players)
        kicking1 == [kicking EXCEPT !.players =
            [i \in Indices(kicking.players) |->
                IF i = pair[1] THEN set_target(kicking.players[i], 0, -200)
                ELSE IF i = pair[2] THEN set_target(kicking.players[i], 0, 200)
                ELSE kicking.players[i]]]
        opposing1 == [opposing EXCEPT !.players =
            [i \in Indices(opposing.players) |->
                EnforceKickoffPosition(opposing.players[i], kick_off_team)]]
    IN IF pair = << >> THEN w
       ELSE [w EXCEPT
               !.ball = BallToCenter(w.ball),
               !.home = IF kick_off_team = "home" THEN kicking1 ELSE opposing1,
               !.away = IF kick_off_team = "home" THEN opposing1 ELSE kicking1,
               !.ko = [@ EXCEPT !.kicker = kicking.players[pair[1]].id,
                                !.receiver = kicking.players[pair[2]].id]]

\* an initial kickoff without the pre-delay
setup_initial_kickoff_no_delay(w) ==
    setup_kickoff_players(
        [w EXCEPT !.ko = [@ EXCEPT !.state = "preparing", !.team = "home",
                                   !.timer = 0]],
        "home")

\* GameEngine._setup_initial_kickoff
setup_initial_kickoff(w) ==
    setup_kickoff_players(
        [w EXCEPT !.ko = [@ EXCEPT !.state = "preparing", !.team = "home",
                                   !.timer = INITIAL_KICKOFF_TIMER]],
        "home")

\* a reset that puts the players on their slots but leaves their velocity
\* and target as they were
reset_team_players_keep_motion(team) ==
    [team EXCEPT !.players =
        [i \in Indices(team.players) |->
            LET slot == BaseSlot(team, i)
            IN IF slot = << >> THEN team.players[i]
               ELSE [team.players[i] EXCEPT !.x = slot[1], !.y = slot[2]]]]

\* a reset that stops the players and aims them at their slots but leaves
\* them standing where play has taken them
reset_team_players_targets_only(team) ==
    [team EXCEPT !.players =
        [i \in Indices(team.players) |->
            LET slot == BaseSlot(team, i)
            IN IF slot = << >> THEN team.players[i]
               ELSE [team.players[i] EXCEPT
                       !.tx = slot[1], !.ty = slot[2],
                       !.vx = 0, !.vy = 0, !.action = "idle"]]]

\* GameEngine._reset_team_players_to_positions
reset_team_players_to_positions(team) ==
    [team EXCEPT !.players =
        [i \in Indices(team.players) |->
            LET slot == BaseSlot(team, i)
            IN IF slot = << >> THEN team.players[i]
               ELSE [team.players[i] EXCEPT
                       !.x = slot[1], !.y = slot[2],
                       !.tx = slot[1], !.ty = slot[2],
                       !.vx = 0, !.vy = 0, !.action = "idle"]]]

\* a kickoff awarded to the team that scored
setup_kickoff_scorer(w, scoring_team) ==
    LET kick_off_team == scoring_team
    IN setup_kickoff_players(
           [w EXCEPT !.home = reset_team_players_to_positions(w.home),
                     !.away = reset_team_players_to_positions(w.away),
                     !.ko = [@ EXCEPT !.state = "preparing",
                                      !.team = kick_off_team, !.timer = 0]],
           kick_off_team)

\* GameEngine._setup_kickoff
setup_kickoff(w, scoring_team) ==
    LET kick_off_team == IF scoring_team = "away" THEN "home" ELSE "away"
    IN setup_kickoff_players(
           [w EXCEPT !.home = reset_team_players_to_positions(w.home),
                     !.away = reset_team_players_to_positions(w.away),
                     !.ko = [@ EXCEPT !.state = "preparing",
                                      !.team = kick_off_team, !.timer = 0]],
           kick_off_team)

(***************************************************************************)
(* The engine's frame (GameEngine._update) and its keys.                   *)
(***************************************************************************)
\* a kickoff_info built before the tick's kickoff advance
TickKickoffInfoStale(w, dt) == KickoffInfo(w.ko)

\* the kickoff_info of a tick: built after this tick's kickoff advance
TickKickoffInfo(w, dt) == KickoffInfo(update_kickoff_state(w.ko, w.ball, dt))

\* the wall clock (time.time()) moves on by the frame's real duration; a
\* team keeps the time since its last retrieval trigger, saturated at the
\* only value it is compared with
AdvanceClock(team, frame) ==
    [team EXCEPT !.since_retrieval = Min(2 * RETRIEVAL_COOLDOWN, @ + frame)]

\* GameEngine._update, the goal check and what follows it: on a goal the
\* ball is put back on the centre spot and the kickoff is set up; then the
\* celebration timer.  h and a are the results of the two team updates, b1
\* the ball they started from, b4 the ball after Ball.update.
goal_check_step(w, dt, ko1, info, b1, h, a, b4) ==
    [world |->
        [(IF ScoringTeam(b4.x, b4.y) = "none"
          THEN [ball |-> b4, home |-> h.team, away |-> a.team,
                gd |-> check_goal(w.gd, b4.x, b4.y, b4.last_touched_by),
                ko |-> ko1]
          ELSE setup_kickoff(
                   [ball |-> BallToCenter(b4), home |-> h.team, away |-> a.team,
                    gd |-> check_goal(w.gd, b4.x, b4.y, b4.last_touched_by),
                    ko |-> ko1],
                   ScoringTeam(b4.x, b4.y)))
         EXCEPT !.gd = GoalDetectorUpdate(@, dt)],
     info |-> info.state, scored |-> ScoringTeam(b4.x, b4.y),
     checked |-> <<b4.x, b4.y>>,
     retrieval |-> [home |-> h.retrieval, away |-> a.retrieval],
     kicked |-> (h.ball # b1 \/ a.ball # h.ball)]

\* GameEngine._update from the away team's update on: away AI, Ball.update,
\* goal check
away_step(w, dt, hashmod, fault_away, ko1, info, b1, h) ==
    LET a == update_team_ai(w.away, dt, h.ball, h.team.players, info,
                            hashmod, fault_away)
    IN goal_check_step(w, dt, ko1, info, b1, h, a, BallUpdate(a.ball, dt))

\* GameEngine._update from the home team's update on
home_step(w, dt, hashmod, fault_home, fault_away, ko1, info, b1) ==
    away_step(w, dt, hashmod, fault_away, ko1, info, b1,
              update_team_ai(w.home, dt, b1, w.away.players, info,
                             hashmod, fault_home))

\* GameEngine._update when not paused: kickoff advance, home team, away
\* team, ball physics, goal check (with ball reset and kickoff setup on a
\* goal), celebration timer.  The result is the world after the frame
\* together with what the frame saw: the kickoff state handed to the
\* teams, the ball position handed to check_goal and the team it returned,
\* which teams triggered a retrieval and whether a player kicked the ball.
Update(w, dt, hashmod, fault_home, fault_away) ==
    home_step(w, dt, hashmod, fault_home, fault_away,
              update_kickoff_state(w.ko, w.ball, dt), TickKickoffInfo(w, dt),
              KickoffStateBall(w.ko, w.ball, dt))

\* the engine's objects after GameEngine.__init__
NewWorld ==
    setup_initial_kickoff(
        [ball |-> NewBall,
         home |-> NewTeam("home", "4-4-2"),
         away |-> NewTeam("away", "4-3-3"),
         gd |-> NewGoalDetector,
         ko |-> [state |-> "none", timer |-> 0, team |-> "home",
                 kicker |-> NoPlayer, receiver |-> NoPlayer]])

\* GameEngine._reset_match: the ball is centred and stopped (its
\* last_touched_by is kept), both teams are recreated in 4-4-2, the
\* detector is reset, and the initial kickoff is set up again
ResetWorld(w) ==
    setup_initial_kickoff(
        [w EXCEPT !.ball = BallToCenter(w.ball),
                  !.home = NewTeam("home", "4-4-2"),
                  !.away = NewTeam("away", "4-4-2"),
                  !.gd = reset_match(w.gd)])

\* hash(player_id) % 5 of the forwards: fixed for a run of the program,
\* differing between runs (string hashing is seeded per process)
ForwardIds == {"H10", "H11", "A9", "A10", "A11"}

HashSamples == {[id \in ForwardIds |-> r] : r \in {0, 3}}

\* the real duration of a frame in ms, as clock.tick(fps) reports it; one
\* value per run
FrameTimes == {690, 1340}

\* the players whose update may raise, and how
FaultSamples == {[idx |-> i, where |-> k] : i \in {1, 6}, k \in {"ai", "physics"}}

\* ball states handed to the goal detector on its own: positions around
\* the goal zones' corners, at rest and moving
GoalCheckBalls ==
    {[x |-> x, y |-> y, vx |-> v[1], vy |-> v[2], last_touched_by |-> NoPlayer] :
        x \in {-5200, -5150, -5149, 0, 5149, 5150, 5200},
        y \in {-417, -416, 0, 416, 417},
        v \in {<<0, 0>>, <<-1500, 300>>}}

\* QLearningAgent.__init__: an empty q_table (state -> action -> value, in
\* millionths) and epsilon 0.3 (in ten-thousandths)
\* a file's 'parameters': a JSON object with epsilon, some other JSON
\* value, or absent
Params(epsilon) == [shape |-> "object", epsilon |-> epsilon]

BadParams == [shape |-> "number", epsilon |-> 0]

NoParams == [shape |-> "absent", epsilon |-> 0]

\* a row of a file's 'q_table': a JSON object of action values, or some
\* other JSON value
Row(state, actions) == [state |-> state, shape |-> "object", actions |-> actions]

BadRow(state) == [state |-> state, shape |-> "number", actions |-> << >>]

\* a file json.load parses: the rows of 'q_table' in order, and 'parameters'
JsonFile(rows, parameters) ==
    [kind |-> "json", q_table |-> rows, parameters |-> parameters]

\* os.path.exists(filepath) is false
NoFile == [kind |-> "missing", q_table |-> << >>, parameters |-> NoParams]

\* a file json.load cannot parse
Garbage == [kind |-> "garbage", q_table |-> << >>, parameters |-> NoParams]

NewAgent == [q_table |-> [st \in {} |-> [ac \in {} |-> 0]], epsilon |-> 3000]

(***************************************************************************)
(* The Q-learning agent (src/ai/agents/learning_agent.py).  q_table maps a *)
(* state to a row, a row maps an action to a value in millionths; as with  *)
(* the program's defaultdicts, reading a missing row or entry creates it.  *)
(***************************************************************************)
\* learning_rate 0.1 and discount_factor 0.95, in hundredths
LEARNING_RATE == 10

DISCOUNT_FACTOR == 95

\* defaultdict(float)()
EmptyRow == [ac \in {} |-> 0]

\* self.q_table[state]: the row is created when missing
TouchRow(q, state) ==
    IF state \in DOMAIN q THEN q ELSE q @@ (state :> EmptyRow)

\* self.q_table[state][action]: row and entry are created when missing
TouchEntry(q, state, action) ==
    LET q1 == TouchRow(q, state)
    IN IF action \in DOMAIN q1[state] THEN q1
       ELSE [q1 EXCEPT ![state] = @ @@ (action :> 0)]

\* max(next_state_values.values()) if next_state_values else 0.0
MaxNextQ(row) ==
    IF DOMAIN row = {} THEN 0
    ELSE CHOOSE v \in {row[ac] : ac \in DOMAIN row} :
             \A ac \in DOMAIN row : row[ac] <= v

\* the update formula, on a table whose rows and entries exist
QUpdate(q2, state, action, reward, max_next_q) ==
    [q2 EXCEPT ![state][action] =
        @ + Div(LEARNING_RATE
                  * (reward + Div(DISCOUNT_FACTOR * max_next_q, 100) - @), 100)]

\* learn_from_experience taking the maximum over the rows of `state`
learn_from_experience_own_row(q, state, action, reward, next_state) ==
    QUpdate(TouchRow(TouchEntry(q, state, action), next_state), state, action,
            reward,
            MaxNextQ(TouchRow(TouchEntry(q, state, action), next_state)[state]))

\* QLearningAgent.learn_from_experience, the q_table's side
learn_from_experience(q, state, action, reward, next_state) ==
    QUpdate(TouchRow(TouchEntry(q, state, action), next_state), state, action,
            reward,
            MaxNextQ(TouchRow(TouchEntry(q, state, action), next_state)[next_state]))


\* the order in which a saved q_table lists its states
StateOrder == <<"forward_2_1_2_1_close_1_2", "forward_2_1_2_1_far_0_2">>

\* for action, value in actions.items(): self.q_table[state][action] = value
LoadRow(q, state, actions) ==
    IF DOMAIN actions = {} THEN q
    ELSE [st \in DOMAIN q \cup {state} |->
            IF st # state THEN q[st]
            ELSE [ac \in (IF state \in DOMAIN q THEN DOMAIN q[state] ELSE {})
                             \cup DOMAIN actions |->
                     IF ac \in DOMAIN actions THEN actions[ac] ELSE q[state][ac]]]

\* the loop over loaded_q_table.items(), from row k on: it stops at the
\* first row whose actions have no items(), keeping what it stored so far
RECURSIVE LoadRows(_, _, _)
LoadRows(q, rows, k) ==
    IF k > Len(rows) THEN [q_table |-> q, raised |-> FALSE]
    ELSE IF rows[k].shape # "object" THEN [q_table |-> q, raised |-> TRUE]
    ELSE LoadRows(LoadRow(q, rows[k].state, rows[k].actions), rows, k + 1)

\* the parameters step of load_q_table, after the rows
LoadParams(a, loaded, parameters) ==
    IF loaded.raised \/ parameters.shape = "number"
    THEN [agent |-> [a EXCEPT !.q_table = loaded.q_table], raised |-> TRUE]
    ELSE [agent |-> [a EXCEPT !.q_table = loaded.q_table,
                              !.epsilon = IF parameters.shape = "absent" THEN @
                                          ELSE parameters.epsilon],
          raised |-> FALSE]

\* QLearningAgent.load_q_table: [agent, raised]; raised tells whether the
\* except branch ran
load_q_table(a, file) ==
    IF file.kind = "missing" THEN [agent |-> a, raised |-> FALSE]
    ELSE IF file.kind = "garbage" THEN [agent |-> a, raised |-> TRUE]
    ELSE LoadParams(a, LoadRows(a.q_table, file.q_table, 1), file.parameters)

\* the states of a table in the order a saved file lists them
SavedStates(q) == SelectSeq(StateOrder, LAMBDA st : st \in DOMAIN q)

\* what save_q_table writes: the rows of the table and the parameters
SavedFile(a) ==
    JsonFile([k \in 1..Len(SavedStates(a.q_table)) |->
                 Row(SavedStates(a.q_table)[k],
                     a.q_table[SavedStates(a.q_table)[k]])],
             Params(a.epsilon))

VARIABLES
    ball,           \* GameEngine.ball
    home_team,      \* GameEngine.home_team
    away_team,      \* GameEngine.away_team
    goal_detector,  \* GameEngine.goal_detector
    kickoff,        \* _kickoff_state, _kickoff_timer, _kickoff_team, kicker, receiver
    paused,         \* GameEngine.paused
    game_speed,     \* GameEngine.game_speed, in tenths
    hashmod,        \* hash(player_id) % 5 of this run
    frame_time,     \* the frame duration of this run
    ticks,          \* unpaused ticks since construction or reset
    keys,           \* keys pressed so far
    faults,         \* player updates that raised so far
    phase,          \* history: the dt accumulated in the current kickoff state
    agent,          \* a QLearningAgent: q_table and epsilon
    calls,          \* calls made on an object driven on its own
    launch,         \* history: the ball's speed when it was placed or last kicked
    disk,           \* the file a QLearningAgent saves to and loads from
    formations,     \* FormationManager.formations: the stored positions
    since_goal,     \* history: dt given to GoalDetector.update since the last goal
    obs             \* what the last frame did (observation only)

vars == <<ball, home_team, away_team, goal_detector, kickoff, paused,
          game_speed, hashmod, frame_time, ticks, keys, faults, phase, agent,
          calls, launch, disk, formations, since_goal, obs>>

\* the inputs of a run and the budgets of the exploration
run == <<hashmod, frame_time>>

budgets == <<keys, faults>>

\* what no frame of the engine touches
apart == <<agent, calls, launch, disk, formations, since_goal>>

World == [ball |-> ball, home |-> home_team, away |-> away_team,
          gd |-> goal_detector, ko |-> kickoff]

\* effective_dt = dt * self.game_speed
EffectiveDt == Div(frame_time * game_speed, 10)

NoObs == [op |-> "init", dt |-> 0, info |-> "none", scored |-> "none",
          checked |-> <<0, 0>>, retrieval |-> [home |-> FALSE, away |-> FALSE],
          kicked |-> FALSE, fault |-> [home |-> NoFault, away |-> NoFault],
          args |-> << >>, result |-> << >>]

NoPhase == [after_goal |-> FALSE, elapsed |-> 0]

SetWorld(w) ==
    /\ ball' = w.ball
    /\ home_team' = w.home
    /\ away_team' = w.away
    /\ goal_detector' = w.gd
    /\ kickoff' = w.ko

Clocked(w, frame) ==
    [w EXCEPT !.home = AdvanceClock(@, frame), !.away = AdvanceClock(@, frame)]

\* the dt accumulated in the kickoff state after a tick: restarted when
\* the state changes or a goal sets the kickoff up again
NextPhase(ko_state, scored, dt) ==
    IF scored # "none" THEN [after_goal |-> TRUE, elapsed |-> 0]
    ELSE IF ko_state = "none" THEN NoPhase
    ELSE IF ko_state # kickoff.state THEN [phase EXCEPT !.elapsed = 0]
    ELSE [phase EXCEPT !.elapsed = @ + dt]

Init ==
    /\ ball = NewWorld.ball
    /\ home_team = NewWorld.home
    /\ away_team = NewWorld.away
    /\ goal_detector = NewWorld.gd
    /\ kickoff = NewWorld.ko
    /\ paused = FALSE
    /\ game_speed = 10
    /\ hashmod \in HashSamples
    /\ frame_time \in FrameTimes
    /\ ticks = 0
    /\ keys = 0
    /\ faults = 0
    /\ phase = NoPhase
    /\ agent = NewAgent
    /\ calls = 0
    /\ launch = 0
    /\ disk = NoFile
    /\ formations = StandardFormations
    /\ since_goal = 0
    /\ obs = NoObs

\* an unpaused frame, with the faults (if any) of the two team updates
TickBody(fault_home, fault_away) ==
    /\ ~paused
    /\ \E r \in {Update(Clocked(World, frame_time), EffectiveDt, hashmod,
                        fault_home, fault_away)} :
          /\ SetWorld(r.world)
          /\ phase' = NextPhase(r.world.ko.state, r.scored, EffectiveDt)
          /\ obs' = [op |-> "tick", dt |-> EffectiveDt, info |-> r.info,
                     scored |-> r.scored, checked |-> r.checked,
                     retrieval |-> r.retrieval, kicked |-> r.kicked,
                     fault |-> [home |-> fault_home, away |-> fault_away]]
    /\ UNCHANGED <<paused, game_speed, run, keys, apart>>

\* a frame of the game loop when not paused
Tick ==
    /\ ticks < MaxTicks
    /\ TickBody(NoFault, NoFault)
    /\ ticks' = ticks + 1
    /\ UNCHANGED faults

\* a frame while paused that runs the update all the same
PausedFrameUpdates ==
    /\ paused
    /\ SetWorld(Update(Clocked(World, frame_time), EffectiveDt, hashmod,
                       NoFault, NoFault).world)
    /\ obs' = [NoObs EXCEPT !.op = "paused"]
    /\ UNCHANGED <<paused, game_speed, run, ticks, budgets, phase, apart>>

\* a frame while paused: _update returns at once, only the wall clock moves
PausedFrame ==
    /\ paused
    /\ SetWorld(Clocked(World, frame_time))
    /\ obs' = [NoObs EXCEPT !.op = "paused"]
    /\ UNCHANGED <<paused, game_speed, run, ticks, budgets, phase, apart>>

\* K_SPACE
KeySpace ==
    /\ paused \/ keys < MaxKeys
    /\ paused' = ~paused
    /\ keys' = IF paused THEN keys ELSE keys + 1
    /\ obs' = [NoObs EXCEPT !.op = "space"]
    /\ UNCHANGED <<ball, home_team, away_team, goal_detector, kickoff,
                   game_speed, run, ticks, faults, phase, apart>>

\* K_EQUALS / K_PLUS
KeyPlus ==
    /\ keys < MaxKeys
    /\ ticks <= SpeedKeyWindow
    /\ keys' = keys + 1
    /\ game_speed' = Min(50, game_speed + 5)
    /\ obs' = [NoObs EXCEPT !.op = "plus"]
    /\ UNCHANGED <<ball, home_team, away_team, goal_detector, kickoff,
                   paused, run, ticks, faults, phase, apart>>

\* K_MINUS
KeyMinus ==
    /\ keys < MaxKeys
    /\ ticks <= SpeedKeyWindow
    /\ keys' = keys + 1
    /\ game_speed' = Max(1, game_speed - 5)
    /\ obs' = [NoObs EXCEPT !.op = "minus"]
    /\ UNCHANGED <<ball, home_team, away_team, goal_detector, kickoff,
                   paused, run, ticks, faults, phase, apart>>

\* K_r: GameEngine._reset_match
KeyR ==
    /\ keys < MaxKeys
    /\ keys' = keys + 1
    /\ SetWorld(ResetWorld(World))
    /\ paused' = FALSE
    /\ game_speed' = 10
    /\ ticks' = 0
    /\ phase' = NoPhase
    /\ obs' = [NoObs EXCEPT !.op = "reset"]
    /\ UNCHANGED <<run, faults, apart>>

Next == Tick \/ PausedFrame \/ KeySpace \/ KeyPlus \/ KeyMinus \/ KeyR

Spec == Init /\ [][Next]_vars

(***************************************************************************)
(* The game loop left to run (GameEngine.run): while the program runs,     *)
(* frame follows frame, so an unpaused game is never left without its next *)
(* tick.  The tick counter wraps, which keeps the run finite-state.        *)
(***************************************************************************)
LiveTick ==
    /\ TickBody(NoFault, NoFault)
    /\ ticks' = (ticks + 1) % TickWrap
    /\ UNCHANGED faults

\* the loop's next frame of an unpaused game
Frame ==
    /\ ~paused
    /\ ticks' = (ticks + 1) % TickWrap

LiveSpec == Init /\ [][LiveTick]_vars /\ WF_ticks(Frame)

(***************************************************************************)
(* Frames in which the update of one player raises.                        *)
(***************************************************************************)
FaultTick ==
    /\ ticks < MaxTicks
    /\ faults < MaxFaults
    /\ \E f \in FaultSamples :
          TickBody(f, NoFault) \/ TickBody(NoFault, f)
    /\ ticks' = ticks + 1
    /\ faults' = faults + 1

FaultNext == Tick \/ FaultTick

FaultSpec == Init /\ [][FaultNext]_vars

(***************************************************************************)
(* The goal detector on its own: check_goal called with any ball.          *)
(***************************************************************************)
PlaceBall ==
    /\ ball' \in GoalCheckBalls
    /\ obs' = [NoObs EXCEPT !.op = "place"]
    /\ UNCHANGED <<home_team, away_team, goal_detector, kickoff, paused,
                   game_speed, run, ticks, budgets, phase, apart>>

CheckGoalCall ==
    /\ Len(goal_detector.goals_scored) < MaxGoals
    /\ goal_detector' = check_goal(goal_detector, ball.x, ball.y,
                                   ball.last_touched_by)
    /\ obs' = [NoObs EXCEPT !.op = "check_goal",
                            !.scored = ScoringTeam(ball.x, ball.y),
                            !.checked = <<ball.x, ball.y>>]
    /\ UNCHANGED <<ball, home_team, away_team, kickoff, paused, game_speed,
                   run, ticks, budgets, phase, apart>>

GoalNext == PlaceBall \/ CheckGoalCall

\* the detector starts as constructed, with a ball anywhere; what the
\* detector never reads is as in one of the program's initial states
GoalInit ==
    /\ Init
    /\ hashmod = [id \in ForwardIds |-> 0]
    /\ frame_time = 690

GoalSpec == GoalInit /\ [][GoalNext]_vars

(***************************************************************************)
(* The ball and a player driven on their own: Ball.update and              *)
(* Player.update applied to sampled positions and velocities, with the     *)
(* frame duration of the run.                                              *)
(***************************************************************************)
\* balls inside, on and far outside the stay-inside rectangle, at rest, slow,
\* at the speed cap and above it
PhysBalls ==
    {[NewBall EXCEPT !.x = x, !.y = y, !.vx = v[1], !.vy = v[2]] :
        x \in {-9000, -5239, 0, 5239, 5250, 20000},
        y \in {-3400, 0, 3389, 6000},
        v \in {<<0, 0>>, <<8, -5>>, <<10, 0>>, <<11, 0>>, <<300, -400>>,
               <<-2500, 1600>>, <<3000, 0>>, <<0, -3000>>, <<-4000, 9000>>}}

\* players inside, on and outside the stay-inside rectangle, with and
\* without energy
PhysPlayers ==
    {[NewPlayer("H1", "goalkeeper", x, y) EXCEPT
         !.vx = v[1], !.vy = v[2], !.energy = e] :
        x \in {-6000, -5250, -5210, 0, 5210, 5300},
        y \in {-3400, -3360, 0, 3360, 9000},
        v \in {<<0, 0>>, <<900, -900>>, <<-40000, 20000>>},
        e \in {0, MAX_ENERGY}}

\* Ball.update(dt, field_bounds) on its own
BallUpdateCall ==
    /\ calls < MaxCalls
    /\ ball' = BallUpdate(ball, EffectiveDt)
    /\ calls' = calls + 1
    /\ obs' = [NoObs EXCEPT !.op = "ball_update", !.dt = EffectiveDt]
    /\ UNCHANGED <<home_team, away_team, goal_detector, kickoff, paused,
                   game_speed, run, ticks, budgets, phase, agent, launch, disk,
                   formations, since_goal>>

\* Player.update(dt, field_bounds) on its own
PlayerUpdateCall ==
    /\ home_team' = [home_team EXCEPT
                        !.players[1] = PlayerUpdate(@, EffectiveDt)]
    /\ obs' = [NoObs EXCEPT !.op = "player_update", !.dt = EffectiveDt]
    /\ UNCHANGED <<ball, away_team, goal_detector, kickoff, paused,
                   game_speed, run, ticks, budgets, phase, apart>>

PhysNext == BallUpdateCall \/ PlayerUpdateCall

PhysInit ==
    /\ home_team \in {[NewWorld.home EXCEPT !.players[1] = p] : p \in PhysPlayers}
                      \cup {NewWorld.home}
    /\ IF home_team = NewWorld.home THEN ball \in PhysBalls ELSE ball = NewBall
    /\ away_team = NewWorld.away
    /\ goal_detector = NewWorld.gd
    /\ kickoff = NewWorld.ko
    /\ paused = FALSE
    /\ game_speed = 10
    /\ hashmod = [id \in ForwardIds |-> 0]
    /\ frame_time \in FrameTimes
    /\ ticks = 0
    /\ keys = 0
    /\ faults = 0
    /\ phase = NoPhase
    /\ agent = NewAgent
    /\ calls = 0
    /\ launch = get_speed(ball)
    /\ disk = NoFile
    /\ formations = StandardFormations
    /\ since_goal = 0
    /\ obs = NoObs

PhysicsSpec == PhysInit /\ [][PhysNext]_vars

(***************************************************************************)
(* Two TeamManagers on their own: constructed with any known formation,    *)
(* then change_formation and get_positions_for_team called in any order.   *)
(***************************************************************************)
\* TeamManager.change_formation: the name, the formation, then
\* update_formation_positions((0.0, 0.0)); the roster is left as it is
change_formation(team, formation_name) ==
    update_formation_positions([team EXCEPT !.formation_name = formation_name],
                               0, 0, FALSE)

ChangeFormationCall ==
    /\ \E f \in DOMAIN formations :
          \/ /\ home_team' = change_formation(home_team, f)
             /\ obs' = [NoObs EXCEPT !.op = "change_formation",
                                     !.args = <<"home", f>>]
             /\ UNCHANGED away_team
          \/ /\ away_team' = change_formation(away_team, f)
             /\ obs' = [NoObs EXCEPT !.op = "change_formation",
                                     !.args = <<"away", f>>]
             /\ UNCHANGED home_team
    /\ UNCHANGED <<ball, goal_detector, kickoff, paused, game_speed, run,
                   ticks, budgets, phase, apart>>

\* Formation.get_positions_for_team(team) on a stored formation
GetPositionsCall ==
    /\ \E f \in DOMAIN formations, team \in {"home", "away"} :
          obs' = [NoObs EXCEPT
                    !.op = "get_positions",
                    !.args = <<team, f>>,
                    !.result = get_positions_for_team(formations[f], team)]
    /\ UNCHANGED <<ball, home_team, away_team, goal_detector, kickoff, paused,
                   game_speed, run, ticks, budgets, phase, apart>>

FormationNext == ChangeFormationCall \/ GetPositionsCall

FormationInit ==
    /\ ball = NewBall
    /\ home_team \in {NewTeam("home", f) : f \in DOMAIN StandardFormations}
    /\ away_team \in {NewTeam("away", f) : f \in DOMAIN StandardFormations}
    /\ goal_detector = NewWorld.gd
    /\ kickoff = NewWorld.ko
    /\ paused = FALSE
    /\ game_speed = 10
    /\ hashmod = [id \in ForwardIds |-> 0]
    /\ frame_time = 690
    /\ ticks = 0
    /\ keys = 0
    /\ faults = 0
    /\ phase = NoPhase
    /\ agent = NewAgent
    /\ calls = 0
    /\ launch = 0
    /\ disk = NoFile
    /\ formations = StandardFormations
    /\ since_goal = 0
    /\ obs = NoObs

FormationSpec == FormationInit /\ [][FormationNext]_vars

(***************************************************************************)
(* A GoalDetector on its own: check_goal and update called in any order,   *)
(* with any frame duration.                                                *)
(***************************************************************************)
\* ball positions in the home goal, in the away goal and on the centre spot
CelebrationBalls == {<<-5200, 0>>, <<5200, 100>>, <<0, 0>>}

\* dt of an update call, in ms
CelebrationTimes == {100, 690, 1340, 3000}

\* GoalDetector.check_goal(ball_x, ball_y, ball_last_touched_by) on its own
GoalCall ==
    /\ Len(goal_detector.goals_scored) < MaxGoals
    /\ \E b \in CelebrationBalls :
          /\ goal_detector' = check_goal(goal_detector, b[1], b[2], NoPlayer)
          /\ since_goal' = IF ScoringTeam(b[1], b[2]) # "none" THEN 0
                            ELSE since_goal
          /\ obs' = [NoObs EXCEPT !.op = "check_goal",
                                  !.scored = ScoringTeam(b[1], b[2]),
                                  !.checked = b]
    /\ UNCHANGED <<ball, home_team, away_team, kickoff, paused, game_speed,
                   run, ticks, budgets, phase, agent, calls, launch, disk,
                   formations>>

\* GoalDetector.update(dt) on its own
GoalUpdateCall ==
    /\ since_goal < MaxQuiet
    /\ \E dt \in CelebrationTimes :
          /\ goal_detector' = GoalDetectorUpdate(goal_detector, dt)
          /\ since_goal' = since_goal + dt
          /\ obs' = [NoObs EXCEPT !.op = "goal_update", !.dt = dt]
    /\ UNCHANGED <<ball, home_team, away_team, kickoff, paused, game_speed,
                   run, ticks, budgets, phase, agent, calls, launch, disk,
                   formations>>

CelebrationNext == GoalCall \/ GoalUpdateCall

CelebrationSpec == GoalInit /\ [][CelebrationNext]_vars

(***************************************************************************)
(* A QLearningAgent fed one experience again and again: the first call     *)
(* picks the tuple (state, action, reward, next_state), the later calls    *)
(* repeat it.                                                              *)
(***************************************************************************)
\* encoded states (two of them) and two of the seven actions
LearnStates == {"forward_2_1_2_1_close_1_2", "forward_2_1_2_1_far_0_2"}

LearnActions == {"chase_ball", "shoot_goal"}

\* rewards in millionths
LearnRewards == {1000000, -500000}

LearnTuples ==
    {<<st, ac, r, nx>> : st \in LearnStates, ac \in LearnActions,
                         r \in LearnRewards, nx \in LearnStates}

\* the tables an agent starts the repetition with: empty, or holding what
\* earlier experience left
LearnTables ==
    {NewAgent.q_table,
     "forward_2_1_2_1_far_0_2" :> ("chase_ball" :> 4000000),
     "forward_2_1_2_1_close_1_2" :> ("shoot_goal" :> 0)
        @@ "forward_2_1_2_1_far_0_2" :> ("shoot_goal" :> -2000000)}

LearnCall ==
    /\ calls < MaxLearn
    /\ \E t \in LearnTuples :
          /\ calls > 0 => t = obs.args
          /\ agent' = [agent EXCEPT
                          !.q_table = learn_from_experience(@, t[1], t[2], t[3], t[4])]
          /\ obs' = [NoObs EXCEPT !.op = "learn", !.args = t]
    /\ calls' = calls + 1
    /\ UNCHANGED <<ball, home_team, away_team, goal_detector, kickoff, paused,
                   game_speed, run, ticks, budgets, phase, launch, disk,
                   formations, since_goal>>

LearnInit ==
    /\ ball = NewBall
    /\ home_team = NewWorld.home
    /\ away_team = NewWorld.away
    /\ goal_detector = NewWorld.gd
    /\ kickoff = NewWorld.ko
    /\ paused = FALSE
    /\ game_speed = 10
    /\ hashmod = [id \in ForwardIds |-> 0]
    /\ frame_time = 690
    /\ ticks = 0
    /\ keys = 0
    /\ faults = 0
    /\ phase = NoPhase
    /\ agent \in {[NewAgent EXCEPT !.q_table = q] : q \in LearnTables}
    /\ calls = 0
    /\ launch = 0
    /\ disk = NoFile
    /\ formations = StandardFormations
    /\ since_goal = 0
    /\ obs = NoObs

LearnSpec == LearnInit /\ [][LearnCall]_vars

(***************************************************************************)
(* A QLearningAgent and its file: the agent learns, saves and loads, and   *)
(* the file may be replaced from outside by any of the sampled contents.   *)
(***************************************************************************)
\* file contents: none, unparseable, well-formed, a row that is no object
\* (first, or after a good row), parameters that are no object
DiskSamples ==
    {NoFile, Garbage,
     JsonFile(<< Row("forward_2_1_2_1_close_1_2", "chase_ball" :> 9000000) >>,
              Params(1000)),
     JsonFile(<< BadRow("forward_2_1_2_1_far_0_2") >>, NoParams),
     JsonFile(<< Row("forward_2_1_2_1_close_1_2",
                     "chase_ball" :> 9000000 @@ "shoot_goal" :> 1000000),
                 BadRow("forward_2_1_2_1_far_0_2") >>,
              Params(1000)),
     JsonFile(<< Row("forward_2_1_2_1_close_1_2", "chase_ball" :> 9000000) >>,
              BadParams)}

\* the file is replaced from outside
WriteFile ==
    /\ disk' \in DiskSamples
    /\ obs' = [NoObs EXCEPT !.op = "write_file"]
    /\ UNCHANGED <<ball, home_team, away_team, goal_detector, kickoff, paused,
                   game_speed, run, ticks, budgets, phase, agent, calls, launch,
                   formations, since_goal>>

\* load_q_table()
LoadCall ==
    /\ agent' = load_q_table(agent, disk).agent
    /\ obs' = [NoObs EXCEPT
                  !.op = "load",
                  !.result = IF load_q_table(agent, disk).raised THEN "error"
                             ELSE IF disk.kind = "missing" THEN "missing"
                             ELSE "loaded"]
    /\ UNCHANGED <<ball, home_team, away_team, goal_detector, kickoff, paused,
                   game_speed, run, ticks, budgets, phase, calls, launch, disk,
                   formations, since_goal>>

\* save_q_table(): the file is written, or makedirs / open / json.dump
\* raises and the file is as it was or cut short
SaveCall ==
    /\ \/ /\ disk' = SavedFile(agent)
          /\ obs' = [NoObs EXCEPT !.op = "save", !.result = "saved"]
       \/ /\ disk' \in {disk, Garbage}
          /\ obs' = [NoObs EXCEPT !.op = "save", !.result = "error"]
    /\ UNCHANGED <<ball, home_team, away_team, goal_detector, kickoff, paused,
                   game_speed, run, ticks, budgets, phase, agent, calls, launch,
                   formations, since_goal>>

\* learn_from_experience between saves and loads
ExperienceCall ==
    /\ calls < MaxExperience
    /\ \E t \in LearnTuples :
          /\ agent' = [agent EXCEPT
                          !.q_table = learn_from_experience(@, t[1], t[2], t[3], t[4])]
          /\ obs' = [NoObs EXCEPT !.op = "learn", !.args = t]
    /\ calls' = calls + 1
    /\ UNCHANGED <<ball, home_team, away_team, goal_detector, kickoff, paused,
                   game_speed, run, ticks, budgets, phase, launch, disk,
                   formations, since_goal>>

PersistNext == WriteFile \/ LoadCall \/ SaveCall \/ ExperienceCall

PersistSpec == GoalInit /\ [][PersistNext]_vars

(***************************************************************************)
(* The kickoff state machine on its own: _update_kickoff_state called with *)
(* any frame duration on a kickoff that has just entered a state, the ball *)
(* at any of the sampled velocities and changing between calls.            *)
(***************************************************************************)
\* the ball on the centre spot: at rest, at 2.0 m/s exactly (straight and
\* oblique), just above it, and fast
KickoffBalls ==
    {[NewBall EXCEPT !.vx = v[1], !.vy = v[2]] :
        v \in {<<0, 0>>, <<200, 0>>, <<120, -160>>, <<201, 0>>, <<-930, 232>>}}

\* dt of a call, in ms
KickoffTimes == {100, 310, 690}

\* GameEngine._update_kickoff_state(dt) on its own
UpdateKickoffCall ==
    /\ \E dt \in KickoffTimes :
          /\ kickoff' = update_kickoff_state(kickoff, ball, dt)
          /\ ball' = KickoffStateBall(kickoff, ball, dt)
          /\ phase' = IF kickoff.state = "none" THEN phase
                      ELSE IF kickoff'.state = kickoff.state \/ kickoff.state = "active"
                      THEN [phase EXCEPT !.elapsed = @ + dt]
                      ELSE [phase EXCEPT !.elapsed = 0]
          /\ obs' = [NoObs EXCEPT !.op = "kickoff_update", !.dt = dt]
    /\ UNCHANGED <<home_team, away_team, goal_detector, paused, game_speed,
                   run, ticks, budgets, apart>>

\* between two calls the ball is kicked, slowed or stopped
BallChanges ==
    /\ ball' \in KickoffBalls \ {ball}
    /\ obs' = [NoObs EXCEPT !.op = "ball_changes"]
    /\ UNCHANGED <<home_team, away_team, goal_detector, kickoff, paused,
                   game_speed, run, ticks, budgets, phase, apart>>

KickoffNext == UpdateKickoffCall \/ BallChanges

KickoffInit ==
    /\ ball \in KickoffBalls
    /\ home_team = NewWorld.home
    /\ away_team = NewWorld.away
    /\ goal_detector = NewWorld.gd
    /\ kickoff \in {[NewWorld.ko EXCEPT !.state = st, !.timer = 0] :
                       st \in {"preparing", "ready", "active"}}
    /\ paused = FALSE
    /\ game_speed = 10
    /\ hashmod = [id \in ForwardIds |-> 0]
    /\ frame_time = 690
    /\ ticks = 0
    /\ keys = 0
    /\ faults = 0
    /\ phase = NoPhase
    /\ agent = NewAgent
    /\ calls = 0
    /\ launch = 0
    /\ disk = NoFile
    /\ formations = StandardFormations
    /\ since_goal = 0
    /\ obs = NoObs

KickoffSpec == KickoffInit /\ [][KickoffNext]_vars

(***************************************************************************)
(* A team's update during a kickoff on its own: update_team_ai called with *)
(* an active kickoff_info on teams whose players stand where play has left *)
(* them, on either side of the center line.                                *)
(***************************************************************************)
\* displacements of a roster from its formation, in cm
Displacements ==
    {<<dx, dy>> : dx \in {-5800, -3200, -700, -300, 0, 300, 700, 3200, 5800},
                  dy \in {-1600, 0, 1600}}

\* a roster moved as a block, kept inside the field as Player.update keeps it
Displaced(team, d) ==
    [team EXCEPT !.players =
        [i \in Indices(team.players) |->
            [team.players[i] EXCEPT
                !.x = Max(FieldBounds.min_x + PLAYER_RADIUS,
                          Min(FieldBounds.max_x - PLAYER_RADIUS, @ + d[1])),
                !.y = Max(FieldBounds.min_y + PLAYER_RADIUS,
                          Min(FieldBounds.max_y - PLAYER_RADIUS, @ + d[2]))]]]

\* TeamManager.update_team_ai(dt, ball, opponents, bounds, kickoff_info) of
\* the home team with the engine's kickoff_info of an active kickoff
HomeKickoffCall ==
    /\ calls < MaxTeamCalls
    /\ \E dt \in KickoffTimes :
          /\ home_team' = update_team_ai(home_team, dt, ball, away_team.players,
                                         KickoffInfo(kickoff), hashmod, NoFault).team
          /\ obs' = [NoObs EXCEPT !.op = "home_kickoff_call", !.dt = dt,
                                  !.info = kickoff.state]
    /\ calls' = calls + 1
    /\ UNCHANGED <<ball, away_team, goal_detector, kickoff, paused, game_speed,
                   run, ticks, budgets, phase, agent, launch, disk, formations,
                   since_goal>>

\* the same call on the away team
AwayKickoffCall ==
    /\ calls < MaxTeamCalls
    /\ \E dt \in KickoffTimes :
          /\ away_team' = update_team_ai(away_team, dt, ball, home_team.players,
                                         KickoffInfo(kickoff), hashmod, NoFault).team
          /\ obs' = [NoObs EXCEPT !.op = "away_kickoff_call", !.dt = dt,
                                  !.info = kickoff.state]
    /\ calls' = calls + 1
    /\ UNCHANGED <<ball, home_team, goal_detector, kickoff, paused, game_speed,
                   run, ticks, budgets, phase, agent, launch, disk, formations,
                   since_goal>>

TeamKickoffNext == HomeKickoffCall \/ AwayKickoffCall

TeamKickoffInit ==
    /\ ball = NewBall
    /\ \E d \in Displacements :
          /\ home_team = Displaced(NewWorld.home, d)
          /\ away_team = Displaced(NewWorld.away, d)
    /\ goal_detector = NewWorld.gd
    /\ kickoff \in {[NewWorld.ko EXCEPT !.state = st, !.team = t, !.timer = 0] :
                       st \in {"preparing", "ready", "active"},
                       t \in {"home", "away"}}
    /\ paused = FALSE
    /\ game_speed = 10
    /\ hashmod = [id \in ForwardIds |-> 0]
    /\ frame_time = 690
    /\ ticks = 0
    /\ keys = 0
    /\ faults = 0
    /\ phase = NoPhase
    /\ agent = NewAgent
    /\ calls = 0
    /\ launch = 0
    /\ disk = NoFile
    /\ formations = StandardFormations
    /\ since_goal = 0
    /\ obs = NoObs

TeamKickoffSpec == TeamKickoffInit /\ [][TeamKickoffNext]_vars

(***************************************************************************)
(* TeamManager.update_formation_positions on its own: a freshly built team *)
(* of any known formation, called with a ball anywhere on the field, with  *)
(* and without possession, with and without the retrieval flag.            *)
(***************************************************************************)
\* ball positions: the centre, the field's edges and corners, the wings
TargetBalls ==
    {[NewBall EXCEPT !.x = x, !.y = y] :
        x \in {-5200, -2500, -300, 0, 1500, 5200}, y \in {-3400, -1000, 0, 3400}}

\* TeamManager.update_formation_positions((ball.x, ball.y), ball_needs_retrieval)
UpdateFormationCall ==
    /\ calls < MaxTeamCalls
    /\ \E in_possession \in BOOLEAN, ball_needs_retrieval \in BOOLEAN :
          \/ /\ home_team' = update_formation_positions(
                                 [home_team EXCEPT !.in_possession = in_possession],
                                 ball.x, ball.y, ball_needs_retrieval)
             /\ obs' = [NoObs EXCEPT !.op = "update_formation_positions",
                                     !.info = "home",
                                     !.retrieval.home = ball_needs_retrieval]
             /\ UNCHANGED away_team
          \/ /\ away_team' = update_formation_positions(
                                 [away_team EXCEPT !.in_possession = in_possession],
                                 ball.x, ball.y, ball_needs_retrieval)
             /\ obs' = [NoObs EXCEPT !.op = "update_formation_positions",
                                     !.info = "away",
                                     !.retrieval.away = ball_needs_retrieval]
             /\ UNCHANGED home_team
    /\ calls' = calls + 1
    /\ UNCHANGED <<ball, goal_detector, kickoff, paused, game_speed, run,
                   ticks, budgets, phase, agent, launch, disk, formations,
                   since_goal>>

TargetInit ==
    /\ ball \in TargetBalls
    /\ home_team \in {NewTeam("home", f) : f \in DOMAIN StandardFormations}
    /\ away_team \in {NewTeam("away", f) : f \in DOMAIN StandardFormations}
    /\ goal_detector = NewWorld.gd
    /\ kickoff = NewWorld.ko
    /\ paused = FALSE
    /\ game_speed = 10
    /\ hashmod = [id \in ForwardIds |-> 0]
    /\ frame_time = 690
    /\ ticks = 0
    /\ keys = 0
    /\ faults = 0
    /\ phase = NoPhase
    /\ agent = NewAgent
    /\ calls = 0
    /\ launch = 0
    /\ disk = NoFile
    /\ formations = StandardFormations
    /\ since_goal = 0
    /\ obs = NoObs

TargetSpec == TargetInit /\ [][UpdateFormationCall]_vars

(***************************************************************************)
(* The kickoff selection on its own: _setup_kickoff_players called for     *)
(* either team on rosters of any composition and order.                    *)
(***************************************************************************)
\* rosters of up to MaxRoster players, as sequences of roles
RosterRoles ==
    UNION {[1..n -> {"goalkeeper", "defender", "midfielder", "forward"}] :
              n \in 1..MaxRoster}

\* a team with the given roles, its players lined up in its own half
TeamOfRoles(team, roles) ==
    [NewTeam(team, "4-4-2") EXCEPT !.players =
        [n \in 1..Len(roles) |->
            NewPlayer(PlayerId(team, n), roles[n],
                      (IF team = "home" THEN -1 ELSE 1) * 1000 * n, 0)]]

\* GameEngine._setup_kickoff_players(kick_off_team) on its own
SetupKickoffPlayersCall ==
    /\ \E t \in {"home", "away"} :
          /\ SetWorld(setup_kickoff_players(
                 [World EXCEPT !.ko = [NewWorld.ko EXCEPT
                                          !.team = t, !.timer = 0,
                                          !.kicker = NoPlayer,
                                          !.receiver = NoPlayer]], t))
          /\ obs' = [NoObs EXCEPT !.op = "setup_kickoff_players", !.info = t]
    /\ UNCHANGED <<paused, game_speed, run, ticks, budgets, phase, apart>>

SelectionInit ==
    /\ ball = NewBall
    /\ \E roles \in RosterRoles :
          /\ home_team = TeamOfRoles("home", roles)
          /\ away_team = TeamOfRoles("away", roles)
    /\ goal_detector = NewWorld.gd
    /\ kickoff = end_kickoff(NewWorld.ko)
    /\ paused = FALSE
    /\ game_speed = 10
    /\ hashmod = [id \in ForwardIds |-> 0]
    /\ frame_time = 690
    /\ ticks = 0
    /\ keys = 0
    /\ faults = 0
    /\ phase = NoPhase
    /\ agent = NewAgent
    /\ calls = 0
    /\ launch = 0
    /\ disk = NoFile
    /\ formations = StandardFormations
    /\ since_goal = 0
    /\ obs = NoObs

SelectionSpec == SelectionInit /\ [][SetupKickoffPlayersCall]_vars

(***************************************************************************)
(* Ball.kick on its own: up to MaxKicks kicks with no update in between,   *)
(* as when several players reach the ball in one tick.                     *)
(***************************************************************************)
\* impulses in mN*s: none, the strongest kick along an axis, oblique ones
KickForces ==
    {<<0, 0>>, <<MAX_KICK_FORCE, 0>>, <<-9000, 12000>>, <<430, -860>>,
     <<-MAX_KICK_FORCE, -MAX_KICK_FORCE>>}

KickBalls ==
    {[NewBall EXCEPT !.vx = v[1], !.vy = v[2]] :
        v \in {<<0, 0>>, <<300, -400>>, <<-2500, 1600>>, <<3000, 0>>,
               <<-4000, 9000>>}}

\* Ball.kick(force_x, force_y, kicker_id) on its own
BallKickCall ==
    /\ calls < MaxKicks
    /\ \E f \in KickForces, id \in {"H10", "A9"} :
          /\ ball' = BallKick(ball, f[1], f[2], id)
          /\ obs' = [NoObs EXCEPT !.op = "kick", !.checked = f, !.info = id]
    /\ calls' = calls + 1
    /\ launch' = get_speed(ball')
    /\ UNCHANGED <<home_team, away_team, goal_detector, kickoff, paused,
                   game_speed, run, ticks, budgets, phase, agent, disk, formations,
                   since_goal>>

KickInit ==
    /\ ball \in KickBalls
    /\ home_team = NewWorld.home
    /\ away_team = NewWorld.away
    /\ goal_detector = NewWorld.gd
    /\ kickoff = NewWorld.ko
    /\ paused = FALSE
    /\ game_speed = 10
    /\ hashmod = [id \in ForwardIds |-> 0]
    /\ frame_time = 690
    /\ ticks = 0
    /\ keys = 0
    /\ faults = 0
    /\ phase = NoPhase
    /\ agent = NewAgent
    /\ calls = 0
    /\ launch = get_speed(ball)
    /\ disk = NoFile
    /\ formations = StandardFormations
    /\ since_goal = 0
    /\ obs = NoObs

KickSpec == KickInit /\ [][BallKickCall]_vars

(***************************************************************************)
(* Player.kick_ball on its own: the home forward H10 and a ball at, inside *)
(* and beyond its kicking range, kicked toward a target or in its facing   *)
(* direction.                                                              *)
(***************************************************************************)
\* the roster index of the kicking player (H10)
Kicker == 10

\* where the ball lies relative to the player: on it, within range, at the
\* range exactly, just beyond, far
KickOffsets == {<<0, 0>>, <<60, -60>>, <<101, 0>>, <<0, 102>>, <<-80, 70>>, <<900, 0>>}

KickEnergies == {MAX_ENERGY, 2000, 300, 0}

\* target_x, target_y, or << >> for a kick without a target; the last is the
\* player's own position, where a ball lying on the player has no direction
KickTargets ==
    {<< >>, <<5250, 0>>, <<-1000, 2000>>,
     <<NewWorld.home.players[Kicker].x, NewWorld.home.players[Kicker].y>>}

\* the facing direction of a player, a unit vector in thousandths
FacingDirections == {<<1000, 0>>, <<-600, 800>>}

\* power in tenths
KickPowers == {0, 5, 10}

\* Player.kick_ball(ball, target_x, target_y, power)
KickBallCall ==
    /\ calls < MaxKicks
    /\ \E target \in KickTargets, facing \in FacingDirections, power \in KickPowers :
          LET p == home_team.players[Kicker]
          IN /\ ball' = IF target = << >>
                        THEN KickBallFacing(p, ball, facing, power)
                        ELSE KickBallBall(p, ball, target[1], target[2], power)
             /\ home_team' = [home_team EXCEPT
                                !.players[Kicker] = KickBallPlayer(p, ball, power)]
             /\ obs' = [NoObs EXCEPT !.op = "kick_ball", !.args = <<power>>,
                                     !.kicked = CanKick(p, ball)]
    /\ calls' = calls + 1
    /\ launch' = get_speed(ball')
    /\ UNCHANGED <<away_team, goal_detector, kickoff, paused, game_speed, run,
                   ticks, budgets, phase, agent, disk, formations, since_goal>>

PlayerKickInit ==
    /\ \E d \in KickOffsets, by \in {NoPlayer, "A9"}, e \in KickEnergies :
          /\ home_team = [NewWorld.home EXCEPT !.players[Kicker].energy = e]
          /\ ball \in {[NewBall EXCEPT
                          !.x = NewWorld.home.players[Kicker].x + d[1],
                          !.y = NewWorld.home.players[Kicker].y + d[2],
                          !.vx = v[1], !.vy = v[2],
                          !.last_touched_by = by] :
                       v \in {<<0, 0>>, <<300, -400>>}}
    /\ away_team = NewWorld.away
    /\ goal_detector = NewWorld.gd
    /\ kickoff = NewWorld.ko
    /\ paused = FALSE
    /\ game_speed = 10
    /\ hashmod = [id \in ForwardIds |-> 0]
    /\ frame_time = 690
    /\ ticks = 0
    /\ keys = 0
    /\ faults = 0
    /\ phase = NoPhase
    /\ agent = NewAgent
    /\ calls = 0
    /\ launch = get_speed(ball)
    /\ disk = NoFile
    /\ formations = StandardFormations
    /\ since_goal = 0
    /\ obs = NoObs

PlayerKickSpec == PlayerKickInit /\ [][KickBallCall]_vars

(***************************************************************************)
(* Properties.                                                             *)
(***************************************************************************)
KickoffMoves ==
    {<<"preparing", "ready">>, <<"ready", "active">>, <<"active", "none">>}

\* C1: the kickoff state changes only along none -> preparing -> ready ->
\* active -> none: ready is entered only from preparing, active only from
\* ready, none only from active, and preparing only by a reset or by a tick
\* that detects a goal (from any state); the match starts in preparing.
C1_KickoffTransitions ==
    [][kickoff'.state # kickoff.state =>
          IF kickoff'.state = "preparing"
          THEN obs'.op = "reset" \/ (obs'.op = "tick" /\ obs'.scored # "none")
          ELSE <<kickoff.state, kickoff'.state>> \in KickoffMoves]_vars

\* C1 witness: after a goal set the kickoff up again, the sequence has run
\* through ready and active back to none
C1_Witness ==
    /\ obs.op = "tick"
    /\ kickoff.state = "none"
    /\ Len(goal_detector.goals_scored) > 0

\* C2: a kickoff set up by a goal (preparing, timer 0) becomes ready at the
\* first tick at which the dt accumulated in preparing reaches 2.0 s and not
\* before, becomes active at the first tick at which a further 1.0 s has
\* accumulated and not before, the ball is moving at the end of the tick
\* that enters active, and active is left for none by the tick at which
\* 1.0 s more has accumulated at the latest.
C2_KickoffProgress ==
    [][(obs'.op = "tick" /\ obs'.scored = "none" /\ phase.after_goal) =>
          /\ kickoff.state = "preparing" =>
                kickoff'.state = IF phase.elapsed + obs'.dt >= 2000
                                 THEN "ready" ELSE "preparing"
          /\ kickoff.state = "ready" =>
                /\ kickoff'.state = IF phase.elapsed + obs'.dt >= 1000
                                    THEN "active" ELSE "ready"
                /\ kickoff'.state = "active" => SpeedSq(ball') > 0
          /\ kickoff.state = "active" =>
                (phase.elapsed + obs'.dt >= 1000 => kickoff'.state = "none")]_vars

\* C2 witness: a kickoff set up by a goal has just entered active with the
\* ball moving
C2_Witness ==
    /\ phase.after_goal
    /\ kickoff.state = "active"
    /\ phase.elapsed = 0
    /\ SpeedSq(ball) > 0

\* C3: at the end of every tick the two teams are never both in possession.
C3_PossessionExclusive ==
    ~(home_team.in_possession /\ away_team.in_possession)

\* C4: check_goal, for any ball position and whatever the ball's velocity:
\* with |y| <= goal_width/2 + 0.5 and x <= -field_length/2 + 1.0 it returns
\* one goal for away, appends it and adds 1 to away_score only; with
\* |y| <= goal_width/2 + 0.5 and x >= field_length/2 - 1.0 the same for
\* home; anywhere else it returns no goal and leaves scores and list as they
\* were.  (-52.0, 0.0) is in the first zone, (52.0, 0.0) in the second.
C4_CheckGoal ==
    [][obs'.op = "check_goal" =>
          LET x == ball.x
              y == ball.y
              in_mouth == Abs(y) <= GOAL_WIDTH \div 2 + 50
              team == IF in_mouth /\ x <= -(FIELD_LENGTH \div 2) + 100 THEN "away"
                      ELSE IF in_mouth /\ x >= FIELD_LENGTH \div 2 - 100 THEN "home"
                      ELSE "none"
              gd == goal_detector
          IN /\ obs'.scored = team
             /\ team = "none" =>
                   /\ gd'.goals_scored = gd.goals_scored
                   /\ gd'.home_score = gd.home_score
                   /\ gd'.away_score = gd.away_score
             /\ team # "none" =>
                   /\ Len(gd'.goals_scored) = Len(gd.goals_scored) + 1
                   /\ SubSeq(gd'.goals_scored, 1, Len(gd.goals_scored))
                         = gd.goals_scored
                   /\ gd'.goals_scored[Len(gd'.goals_scored)].scoring_team = team
                   /\ gd'.away_score = gd.away_score + (IF team = "away" THEN 1 ELSE 0)
                   /\ gd'.home_score = gd.home_score + (IF team = "home" THEN 1 ELSE 0)
             /\ (x = -5200 /\ y = 0) => team = "away"
             /\ (x = 5200 /\ y = 0) => team = "home"]_vars

\* C4 witness: a moving ball at (-52.0, 0.0) was checked after a home goal
\* and counted for away
C4_Witness ==
    /\ obs.op = "check_goal"
    /\ obs.checked = <<-5200, 0>>
    /\ ball.vx # 0
    /\ obs.scored = "away"
    /\ goal_detector.home_score = 1
    /\ goal_detector.away_score = 1

\* C5: in every tick that detects a goal by team T the tick ends with the
\* ball at (0,0) at rest, the kickoff preparing with timer 0 and awarded to
\* the other team; and the tick that follows a goal tick detects no goal.
C5_GoalRestart ==
    [][obs'.op = "tick" =>
          /\ obs'.scored # "none" =>
                /\ ball'.x = 0 /\ ball'.y = 0 /\ ball'.vx = 0 /\ ball'.vy = 0
                /\ kickoff'.state = "preparing"
                /\ kickoff'.timer = 0
                /\ kickoff'.team = (IF obs'.scored = "home" THEN "away" ELSE "home")
                /\ Len(goal_detector'.goals_scored)
                      = Len(goal_detector.goals_scored) + 1
          /\ (phase.after_goal /\ kickoff.state = "preparing" /\ phase.elapsed = 0)
                => obs'.scored = "none"]_vars

\* C5 witness: a tick has just detected a goal by home
C5_Witness ==
    /\ obs.op = "tick"
    /\ obs.scored = "home"
    /\ kickoff.team = "away"

GoalsOf(team) ==
    Cardinality({i \in 1..Len(goal_detector.goals_scored) :
                    goal_detector.goals_scored[i].scoring_team = team})

\* C6: each score is the number of that team's records in goals_scored;
\* the list only grows by appending and no score decreases, except on a
\* reset, which zeroes both scores and empties the list.
C6_ScoreIsCount ==
    /\ [](/\ goal_detector.home_score = GoalsOf("home")
          /\ goal_detector.away_score = GoalsOf("away"))
    /\ [][IF obs'.op = "reset"
          THEN /\ goal_detector'.home_score = 0
               /\ goal_detector'.away_score = 0
               /\ goal_detector'.goals_scored = << >>
          ELSE /\ Len(goal_detector'.goals_scored) >= Len(goal_detector.goals_scored)
               /\ SubSeq(goal_detector'.goals_scored, 1,
                         Len(goal_detector.goals_scored))
                     = goal_detector.goals_scored
               /\ goal_detector'.home_score >= goal_detector.home_score
               /\ goal_detector'.away_score >= goal_detector.away_score]_vars

\* C6 witness: two goals are on the list
C6_Witness == Len(goal_detector.goals_scored) = 2

NobodyCanKick ==
    /\ \A i \in Indices(home_team.players) : ~CanKick(home_team.players[i], ball)
    /\ \A i \in Indices(away_team.players) : ~CanKick(away_team.players[i], ball)

\* the ball lies still in open play with nobody in kicking range
StuckBall ==
    /\ kickoff.state = "none"
    /\ SpeedSq(ball) = 0
    /\ NobodyCanKick

\* C8: stuck balls are resolved: from every state in which the kickoff is
\* none and the ball is at rest with no player in kicking range, continued
\* unpaused ticks lead to a tick in which a player kicks the ball.
C8_StuckBallResolved == StuckBall ~> (obs.op = "tick" /\ obs.kicked)

\* the program state of a tick that no player's update fails in
CleanTick ==
    Update(Clocked(World, frame_time), EffectiveDt, hashmod, NoFault, NoFault)

\* the players of a team other than the one at a roster index are as a
\* clean tick leaves them
OthersAsClean(players, clean_players, idx) ==
    \A i \in Indices(players) \ {idx} : players[i] = clean_players[i]

\* C9: when the update of one player raises during a team tick (in its
\* decision or in its physics step, in a normal or in a kickoff tick),
\* every other player of that team is decided and integrated as in a tick
\* without the failure.
C9_FaultIsolation ==
    [][(obs'.op = "tick" /\ obs'.scored = "none" /\ CleanTick.scored = "none") =>
          /\ obs'.fault.home.idx # 0 =>
                OthersAsClean(home_team'.players, CleanTick.world.home.players,
                              obs'.fault.home.idx)
          /\ obs'.fault.away.idx # 0 =>
                OthersAsClean(away_team'.players, CleanTick.world.away.players,
                              obs'.fault.away.idx)]_vars

\* the retrieval cooldown of a team after a frame that advances it by dt
\* (it restarts when the team triggers a retrieval)
CooldownAdvanced(team, team_after, triggered, dt) ==
    team_after.since_retrieval
        = IF triggered THEN 0
          ELSE Min(2 * RETRIEVAL_COOLDOWN, team.since_retrieval + dt)

\* C10: the retrieval cooldown, the kickoff timer and the celebration timer
\* all advance by the tick's speed-scaled dt: a paused frame advances none
\* of them, and a tick advances each of them by its dt.
C10_TimersShareDelta ==
    [][/\ obs'.op = "paused" =>
             /\ kickoff'.timer = kickoff.timer
             /\ goal_detector'.celebration_timer = goal_detector.celebration_timer
             /\ home_team'.since_retrieval = home_team.since_retrieval
             /\ away_team'.since_retrieval = away_team.since_retrieval
       /\ (obs'.op = "tick" /\ obs'.scored = "none") =>
             /\ (kickoff'.state = kickoff.state /\ kickoff.state # "none") =>
                   kickoff'.timer = kickoff.timer + obs'.dt
             /\ goal_detector.goal_just_scored =>
                   goal_detector'.celebration_timer
                      = Max(0, goal_detector.celebration_timer - obs'.dt)
             /\ CooldownAdvanced(home_team, home_team', obs'.retrieval.home, obs'.dt)
             /\ CooldownAdvanced(away_team, away_team', obs'.retrieval.away, obs'.dt)]_vars

\* the formation starting coordinate of player i of a team: the slot of its
\* role index in the team's formation, negated in both coordinates for away
StartSlot(team, i) ==
    LET stored == StandardFormations[team.formation_name][team.players[i].role]
                                    [RoleIndex(team.players, i)]
    IN IF team.team_name = "home" THEN stored
       ELSE <<-stored[1], -stored[2]>>

\* a player stands still on its slot; its target is the slot, or its
\* kickoff spot if it is the kicker or the receiver of the new kickoff
ResetToSlot(team, i, ko) ==
    LET p == team.players[i]
        slot == StartSlot(team, i)
    IN /\ p.x = slot[1] /\ p.y = slot[2]
       /\ p.vx = 0 /\ p.vy = 0
       /\ IF p.id = ko.kicker THEN p.tx = 0 /\ p.ty = -200
          ELSE IF p.id = ko.receiver THEN p.tx = 0 /\ p.ty = 200
          ELSE p.tx = slot[1] /\ p.ty = slot[2]

\* C11: at the end of every tick that detects a goal each of the 22 players
\* stands on its formation starting coordinate with velocity (0,0) and its
\* target on that coordinate; the kicker and the receiver of the new
\* kickoff, reset like the others first, then have their kickoff spots
\* (0,-2) and (0,2) as targets.
C11_GoalResetsPlayers ==
    [][(obs'.op = "tick" /\ obs'.scored # "none") =>
          /\ Len(home_team'.players) + Len(away_team'.players) = 22
          /\ \A i \in Indices(home_team'.players) :
                 ResetToSlot(home_team', i, kickoff')
          /\ \A i \in Indices(away_team'.players) :
                 ResetToSlot(away_team', i, kickoff')]_vars

\* C11 witness: a goal tick has just ended, a kicker is named and the away
\* players stand still on their slots
C11_Witness ==
    /\ obs.op = "tick"
    /\ obs.scored # "none"
    /\ kickoff.kicker # NoPlayer
    /\ \A i \in Indices(away_team.players) :
           /\ away_team.players[i].x = StartSlot(away_team, i)[1]
           /\ away_team.players[i].vx = 0

Inside(x, y, radius) ==
    /\ FieldBounds.min_x + radius <= x /\ x <= FieldBounds.max_x - radius
    /\ FieldBounds.min_y + radius <= y /\ y <= FieldBounds.max_y - radius

\* C12: after every Ball.update and every Player.update the entity's centre
\* lies inside the field bounds shrunk by its radius on all four sides,
\* wherever it was and however fast it moved before the call
C12_BoundaryContainment ==
    [][/\ obs'.op = "ball_update" => Inside(ball'.x, ball'.y, BALL_RADIUS)
       /\ obs'.op = "player_update" =>
              Inside(home_team'.players[1].x, home_team'.players[1].y,
                     PLAYER_RADIUS)]_vars

\* a ball has just been put back on the right wall and a player on the top
\* one (two runs; either state is a witness)
C12_Witness ==
    \/ /\ obs.op = "ball_update"
       /\ ball.x = FieldBounds.max_x - BALL_RADIUS
       /\ ball.vx < 0
    \/ /\ obs.op = "player_update"
       /\ home_team.players[1].y = FieldBounds.min_y + PLAYER_RADIUS
       /\ home_team.players[1].vy < 0

\* the speed friction removes in one call: friction * dt
FrictionPerCall == Div(BALL_FRICTION * EffectiveDt, 1000)

AtRest(b) == b.vx = 0 /\ b.vy = 0

\* the call left both coordinates strictly between the walls
OffWalls(b) ==
    /\ FieldBounds.min_x + BALL_RADIUS < b.x /\ b.x < FieldBounds.max_x - BALL_RADIUS
    /\ FieldBounds.min_y + BALL_RADIUS < b.y /\ b.y < FieldBounds.max_y - BALL_RADIUS

\* C13: absent kicks, a Ball.update call never increases the ball's speed and
\* friction alone never turns or reverses the velocity; a ball at 0.1 m/s or
\* less leaves the call with velocity exactly (0, 0); and a ball launched at
\* speed s is at rest after at most s / (friction * dt) + 1 calls
C13_FrictionMonotone ==
    [][obs'.op = "ball_update" =>
          /\ SpeedSq(ball') <= SpeedSq(ball)
          /\ OffWalls(ball') =>
                /\ ball'.vx * ball.vx >= 0
                /\ ball'.vy * ball.vy >= 0
                /\ Abs(ball'.vx * ball.vy - ball'.vy * ball.vx)
                      <= Abs(ball.vx) + Abs(ball.vy)
          /\ SpeedSq(ball) <= BALL_MIN_SPEED * BALL_MIN_SPEED => AtRest(ball')
          /\ calls' >= Div(launch, FrictionPerCall) + 1 => AtRest(ball')]_vars

\* a ball launched at 5 m/s has rolled to rest away
\* from the walls, at the last call the bound allows
C13_Witness ==
    /\ obs.op = "ball_update"
    /\ launch = 500
    /\ calls = Div(launch, FrictionPerCall) + 1
    /\ AtRest(ball)
    /\ OffWalls(ball)
    /\ ball.x > 0 /\ ball.y < 0

\* prior velocity + force / mass, the velocity Ball.kick works from
KickedVelocity(b, f) ==
    <<b.vx + Div(f[1] * 10, BALL_MASS), b.vy + Div(f[2] * 10, BALL_MASS)>>

\* C14: after any Ball.kick the ball's speed is at most 30 m/s (to the
\* centimetre per second the model resolves), its velocity
\* points where prior velocity + force / mass points (that vector itself when
\* it is within the cap, else that vector scaled down to the cap), and
\* last_touched_by is the kicker; also for the second and third kick of a
\* tick
C14_KickClamp ==
    [][obs'.op = "kick" =>
          LET w == KickedVelocity(ball, obs'.checked)
              within == w[1] * w[1] + w[2] * w[2]
                           <= BALL_MAX_VELOCITY * BALL_MAX_VELOCITY
          IN /\ get_speed(ball') <= BALL_MAX_VELOCITY
             /\ ball'.vx * w[1] + ball'.vy * w[2] >= 0
             /\ Abs(ball'.vx * w[2] - ball'.vy * w[1]) <= Abs(w[1]) + Abs(w[2])
             /\ within => ball'.vx = w[1] /\ ball'.vy = w[2]
             /\ ~within => get_speed(ball') >= BALL_MAX_VELOCITY - 2
             /\ ball'.last_touched_by = obs'.info]_vars

\* the third kick of a tick, by another player than the one before, has
\* been scaled down to the cap along an oblique direction
C14_Witness ==
    /\ obs.op = "kick"
    /\ calls = MaxKicks
    /\ ball.last_touched_by = "A9"
    /\ get_speed(ball) >= BALL_MAX_VELOCITY - 2
    /\ ball.vx < 0 /\ ball.vy > 0

\* C15: for every formation and role, get_positions_for_team("away") is the
\* list of the home (stored) positions with both coordinates negated, in the
\* same order; mirroring the result again gives the home positions back; and
\* the call leaves the stored positions as they were
C15_FormationMirroring ==
    [][obs'.op = "get_positions" =>
          LET stored == formations[obs'.args[2]]
              home == get_positions_for_team(stored, "home")
              got == obs'.result
          IN /\ home = stored
             /\ obs'.args[1] = "home" => got = home
             /\ obs'.args[1] = "away" =>
                   /\ DOMAIN got = DOMAIN home
                   /\ \A r \in DOMAIN home :
                         /\ Len(got[r]) = Len(home[r])
                         /\ \A i \in 1..Len(home[r]) :
                               /\ got[r][i][1] = -home[r][i][1]
                               /\ got[r][i][2] = -home[r][i][2]
                   /\ get_positions_for_team(got, "away") = home
             /\ formations' = formations]_vars

\* the away positions of 3-5-2 have just been computed: five midfielders,
\* the first on the away side's right of its own half
C15_Witness ==
    /\ obs.op = "get_positions"
    /\ obs.args = <<"away", "3-5-2">>
    /\ Len(obs.result.midfielder) = 5
    /\ obs.result.midfielder[1] = <<2500, 2000>>
    /\ formations = StandardFormations

\* the number of slots a team's current formation has for a role
PositionCount(team, role) ==
    Len(get_positions_for_team(get_formation(team.formation_name),
                               team.team_name)[role])

\* the number of players of a role on a team's roster
RosterCount(team, role) ==
    Cardinality({i \in Indices(team.players) : team.players[i].role = role})

\* C16: at every reachable state of a TeamManager, after construction and
\* after any change_formation calls with known names, the current formation
\* has as many positions for each role as the roster has players of it
C16_RoleCounts ==
    \A team \in {home_team, away_team} :
       \A k \in 1..Len(ROLES) :
          PositionCount(team, ROLES[k]) = RosterCount(team, ROLES[k])

\* GoalDetector.is_celebrating
is_celebrating(gd) == gd.goal_just_scored

\* C17: once a goal is recorded is_celebrating() is true exactly while the dt
\* given to GoalDetector.update since that goal is below 3.0 s, the timer
\* then holding what is left of the 3.0 s; at the update that completes the
\* 3.0 s it turns false with celebration_timer exactly 0; the timer is
\* never negative or above 3.0 s; and celebration starts only with a goal
C17_CelebrationTimer ==
    [][/\ 0 <= goal_detector'.celebration_timer
       /\ goal_detector'.celebration_timer <= CELEBRATION_DURATION
       /\ goal_detector'.goals_scored = << >> => ~is_celebrating(goal_detector')
       /\ goal_detector'.goals_scored # << >> =>
             /\ is_celebrating(goal_detector') <=> since_goal' < CELEBRATION_DURATION
             /\ goal_detector'.celebration_timer
                   = Max(0, CELEBRATION_DURATION - since_goal')
       /\ (~is_celebrating(goal_detector) /\ is_celebrating(goal_detector')) =>
             Len(goal_detector'.goals_scored) = Len(goal_detector.goals_scored) + 1
      ]_vars

\* the update that completes the 3.0 s since the second goal has just ended
\* the celebration, which earlier updates had run down
C17_Witness ==
    /\ obs.op = "goal_update"
    /\ obs.dt = 690
    /\ Len(goal_detector.goals_scored) = 2
    /\ since_goal = 3 * 690 + 1340
    /\ ~is_celebrating(goal_detector)
    /\ goal_detector.celebration_timer = 0

\* Q(state, action) as a read of the table gives it: 0.0 when missing
QValue(q, state, action) ==
    IF state \in DOMAIN q /\ action \in DOMAIN q[state]
    THEN q[state][action] ELSE 0

\* the row of next_state that a learn_from_experience call takes its
\* maximum over: read after Q(state, action) has been read
NextRow(q, t) == TouchRow(TouchEntry(q, t[1], t[2]), t[4])[t[4]]

\* reward + discount_factor * max Q(next_state, .), the value a call moves
\* Q(state, action) toward
LearnTarget(q, t) == t[3] + Div(DISCOUNT_FACTOR * MaxNextQ(NextRow(q, t)), 100)

\* reward / (1 - discount_factor)
RewardLimit(t) == Div(100 * t[3], 100 - DISCOUNT_FACTOR)

\* C18 as stated: every repeated learn_from_experience call brings
\* Q(state, action) closer to reward / (1 - discount_factor), strictly so
\* while it is more than 0.001 away from it
C18_TowardRewardLimit ==
    [][obs'.op = "learn" =>
          LET t == obs'.args
              before == Abs(QValue(agent.q_table, t[1], t[2]) - RewardLimit(t))
              after == Abs(QValue(agent'.q_table, t[1], t[2]) - RewardLimit(t))
          IN /\ after <= before
             /\ before > 1000 => after < before]_vars

\* C18, amended: every repeated learn_from_experience call moves
\* Q(state, action) toward reward + discount_factor * max Q(next_state, .)
\* (the maximum over next_state's entries at the call, 0 without entries),
\* never past it, the distance to it shrinking by the factor 0.9; when
\* next_state is the state itself and Q(state, action) is the largest value
\* of its row, the distance to reward / (1 - discount_factor) shrinks by
\* the factor 0.995; when next_state has no entries the target is the reward
C18_TowardTarget ==
    [][obs'.op = "learn" =>
          LET t == obs'.args
              old == QValue(agent.q_table, t[1], t[2])
              new == QValue(agent'.q_table, t[1], t[2])
              target == LearnTarget(agent.q_table, t)
              gap == Abs(old - target)
              far == Abs(old - RewardLimit(t))
          IN /\ Sign(new - target) \in {Sign(old - target), 0}
             /\ Abs(new - target) <= gap - Div(gap, 10) + 1
             /\ Abs(new - target) >= gap - Div(gap, 10) - 1
             /\ (t[4] = t[1] /\ old = MaxNextQ(NextRow(agent.q_table, t))) =>
                   /\ Abs(new - RewardLimit(t)) <= far - Div(far, 200) + 2
                   /\ Abs(new - RewardLimit(t)) >= far - Div(far, 200) - 2
             /\ DOMAIN NextRow(agent.q_table, t) = {} => target = t[3]]_vars

\* after MaxLearn calls with reward 1.0 and a next state without entries,
\* in a table that was empty, Q(state, action) rests on the reward, far
\* from reward / (1 - discount_factor) = 20.0
C18_Witness ==
    /\ obs.op = "learn"
    /\ calls = MaxLearn
    /\ obs.args = <<"forward_2_1_2_1_close_1_2", "chase_ball", 1000000,
                    "forward_2_1_2_1_far_0_2">>
    /\ DOMAIN agent.q_table["forward_2_1_2_1_far_0_2"] = {}
    /\ Abs(agent.q_table["forward_2_1_2_1_close_1_2"]["chase_ball"] - 1000000) < 10

\* C19: a load_q_table or save_q_table call that meets an error (a missing
\* file, content that cannot be parsed, content of the wrong shape, a failed
\* write) returns with the agent's q_table and epsilon exactly as they were
\* before the call
C19_PersistenceFaultsNoOp ==
    [][(obs'.op \in {"load", "save"} /\ obs'.result \in {"error", "missing"}) =>
          agent' = agent]_vars

\* C20: a call of the kickoff update in state active ends the kickoff (state
\* none, timer 0) when the dt accumulated in active, this call's included,
\* has reached 1.0 s or the ball is faster than 2.0 m/s, and otherwise
\* leaves the state active; so active is left at the first such call
C20_ActiveEnds ==
    [][(obs'.op = "kickoff_update" /\ kickoff.state = "active") =>
          IF phase.elapsed + obs'.dt >= 1000 \/ SpeedSq(ball) > 200 * 200
          THEN kickoff'.state = "none" /\ kickoff'.timer = 0
          ELSE kickoff'.state = "active"]_vars

\* with the ball at 2.0 m/s exactly, active has lasted three calls and
\* ended at the one that completed the second
C20_Witness ==
    /\ obs.op = "kickoff_update"
    /\ obs.dt = 310
    /\ kickoff.state = "none"
    /\ kickoff.timer = 0
    /\ phase.elapsed = 690 + 100 + 310
    /\ SpeedSq(ball) = 200 * 200
    /\ ball.vy # 0

(***************************************************************************)
(* Stuck-ball retrieval: who is sent to the ball.                          *)
(***************************************************************************)
\* the targets the players of a team hold when only the retriever (the
\* closest non-goalkeeper) is sent to the ball and every other player keeps
\* the target update_formation_positions gave it
OnlyRetrieverChases(before, after, opponent_players, b) ==
    LET t1 == update_possession_status(before, b, opponent_players)
        retriever == Closest(before.players, Outfield(before.players), b.x, b.y)
    IN \A i \in Indices(before.players) :
          LET formed == FormationTarget(t1, i, b.x, b.y, TRUE)
          IN IF i = retriever
             THEN after.players[i].tx = b.x /\ after.players[i].ty = b.y
             ELSE /\ after.players[i].tx = formed.tx
                  /\ after.players[i].ty = formed.ty
                  /\ ~(formed.tx = b.x /\ formed.ty = b.y)

\* C21: on every tick in which a team's stuck-ball retrieval triggers,
\* exactly one player of that team, the non-goalkeeper closest to the ball,
\* ends the tick with its target at the ball position; every other player
\* of that team, the goalkeeper included, ends it with the target derived
\* from its formation slot.
C21_OneRetriever ==
    [][(obs'.op = "tick" /\ obs'.scored = "none") =>
          /\ obs'.retrieval.home =>
                OnlyRetrieverChases(home_team, home_team', away_team.players, ball)
          /\ obs'.retrieval.away =>
                OnlyRetrieverChases(away_team, away_team', home_team'.players, ball)]_vars

\* a retrieval tick of the home team has just run and nobody scored
C21_Witness ==
    /\ obs.op = "tick" /\ obs.scored = "none"
    /\ obs.retrieval.home
    /\ home_team.since_retrieval = 0

(***************************************************************************)
(* Ball interaction in a normal tick.                                      *)
(***************************************************************************)
\* the roster indices of the players of a roster within the interaction
\* distance of the ball
Interacting(players, b) == {i \in Indices(players) : Interacts(players[i], b)}

\* the greatest element of a non-empty set of roster indices
Last(S) == CHOOSE i \in S : \A j \in S : j <= i

\* the player that interacts last in a tick: the home roster is stepped
\* first, then the away roster (0: nobody interacts)
LastInteracting(home_players, away_players, b) ==
    IF Interacting(away_players, b) # {}
    THEN away_players[Last(Interacting(away_players, b))].id
    ELSE IF Interacting(home_players, b) # {}
    THEN home_players[Last(Interacting(home_players, b))].id
    ELSE "nobody"

\* C22: in every non-kickoff tick every player closer than 1.2 m to the
\* ball actually kicks it: the last of them in stepping order is the
\* ball's last_touched_by after the tick, and the ball has been kicked.
C22_InteractionKicks ==
    [][(obs'.op = "tick" /\ obs'.scored = "none" /\ obs'.info = "none"
          /\ LastInteracting(home_team.players, away_team.players, ball) # "nobody")
        => ball'.last_touched_by
              = LastInteracting(home_team.players, away_team.players, ball)]_vars

\* a normal tick has run in which a player within the interaction distance
\* kicked the ball
C22_Witness ==
    /\ obs.op = "tick" /\ obs.scored = "none" /\ obs.info = "none"
    /\ ball.last_touched_by \notin {"", "nobody"}

(***************************************************************************)
(* The kicking team during a kickoff.                                      *)
(***************************************************************************)
\* the players of a team a kickoff tick sends back to formation: the ones
\* farther than 5 m from the ball that are not the designated pair
HoldsFormation(team, ko, b) ==
    {i \in Indices(team.players) :
        /\ team.players[i].id \notin {ko.kicker, ko.receiver}
        /\ DistSq(team.players[i], b.x, b.y) > 500 * 500}

\* every such player ends with its own formation slot as target
OwnSlotTargets(before, after, ko, b) ==
    \A i \in HoldsFormation(before, ko, b) :
        /\ BaseSlot(before, i) # << >>
        /\ after.players[i].tx = BaseSlot(before, i)[1]
        /\ after.players[i].ty = BaseSlot(before, i)[2]

\* C23: on every tick in kickoff state preparing or ready, each
\* non-designated player of the kicking team farther than 5 m from the
\* kickoff point has its own formation slot (the position at its role
\* index) as target, so two players of one role never share a target.
C23_KickoffHoldsOwnSlot ==
    [][(obs'.op = "tick" /\ obs'.info \in {"preparing", "ready"}) =>
          /\ kickoff.team = "home" => OwnSlotTargets(home_team, home_team', kickoff, ball)
          /\ kickoff.team = "away" => OwnSlotTargets(away_team, away_team', kickoff, ball)]_vars

\* a kickoff tick in preparing or ready has sent players of the kicking
\* team back to formation
C23_Witness ==
    /\ obs.op = "tick" /\ obs.info \in {"preparing", "ready"}
    /\ HoldsFormation(IF kickoff.team = "home" THEN home_team ELSE away_team,
                      kickoff, ball) # {}

(***************************************************************************)
(* Possession.                                                             *)
(***************************************************************************)
\* no player of either roster is within 2.0 m of the ball
Loose(home_players, away_players, b) ==
    /\ ClosestDistSq(home_players, b.x, b.y) >= POSSESSION_DIST * POSSESSION_DIST
    /\ ClosestDistSq(away_players, b.x, b.y) >= POSSESSION_DIST * POSSESSION_DIST

NoPossession(team) == ~team.in_possession /\ team.ball_carrier = 0

\* C24: at the end of every tick in which no player of either team is
\* within 2.0 m of the ball (neither when the tick starts nor when it ends),
\* neither team has in_possession true and neither has a ball_carrier, in
\* kickoff ticks as well as in normal ticks.
C24_LooseBallClearsPossession ==
    [][(/\ obs'.op = "tick"
        /\ Loose(home_team.players, away_team.players, ball)
        /\ Loose(home_team'.players, away_team.players, ball)
        /\ Loose(home_team'.players, away_team'.players, ball'))
        => NoPossession(home_team') /\ NoPossession(away_team')]_vars

\* a tick with the ball loose throughout has run
C24_Witness ==
    /\ obs.op = "tick"
    /\ Loose(home_team.players, away_team.players, ball)
    /\ get_speed(ball) > 0

\* the player with a given id, among both rosters
PlayerOf(id) ==
    LET all == home_team.players \o away_team.players
    IN all[CHOOSE i \in Indices(all) : all[i].id = id]

\* C25: from the kickoff setup until the kickoff pass (states preparing and
\* ready) the designated kicker's target stays at the kickoff spot (0,-2)
\* and the designated receiver's at (0,2).
C25_DesignatedTargetsKept ==
    kickoff.state \in {"preparing", "ready"} =>
        /\ PlayerOf(kickoff.kicker).tx = 0 /\ PlayerOf(kickoff.kicker).ty = -200
        /\ PlayerOf(kickoff.receiver).tx = 0 /\ PlayerOf(kickoff.receiver).ty = 200

\* a team update has run during a kickoff that is still before its pass
C25_Witness ==
    /\ obs.op = "tick" /\ obs.info \in {"preparing", "ready"}
    /\ kickoff.state \in {"preparing", "ready"}

(***************************************************************************)
(* The ball during a kickoff.                                              *)
(***************************************************************************)
\* C26: throughout kickoff states preparing and ready the ball stays at
\* (0,0) with zero velocity and its last_touched_by does not change: no
\* player kicks in such a tick and no goal is recorded; the only kick of a
\* kickoff is the engine's pass in the tick that takes ready to active.
C26_KickoffBallUntouched ==
    [][(obs'.op = "tick" /\ obs'.info \in {"preparing", "ready"}) =>
          /\ ball' = [x |-> 0, y |-> 0, vx |-> 0, vy |-> 0,
                      last_touched_by |-> ball.last_touched_by]
          /\ ~obs'.kicked
          /\ obs'.scored = "none"
          /\ goal_detector'.home_score = goal_detector.home_score
          /\ goal_detector'.away_score = goal_detector.away_score
          /\ goal_detector'.goals_scored = goal_detector.goals_scored]_vars

\* a kickoff after a goal has reached ready with the scorer's touch still
\* on the ball
C26_Witness ==
    /\ obs.op = "tick" /\ obs.info = "ready"
    /\ kickoff.state = "ready"
    /\ ball.last_touched_by # NoPlayer
    /\ Len(goal_detector.goals_scored) > 0

\* the player nearest to the ball among both rosters is one of `players`
\* and is closer than 2.0 m
NearestIsOursAndNear(players, opponent_players, b) ==
    /\ \A j \in Indices(opponent_players) :
          ClosestDistSq(players, b.x, b.y) <= DistSq(opponent_players[j], b.x, b.y)
    /\ ClosestDistSq(players, b.x, b.y) < POSSESSION_DIST * POSSESSION_DIST

\* what a possession update must leave: possession and the nearest own
\* player as carrier in that case, neither otherwise
PossessionAsNearest(after, players, opponent_players, b) ==
    IF NearestIsOursAndNear(players, opponent_players, b)
    THEN /\ after.in_possession
         /\ after.ball_carrier \in Indices(players)
         /\ DistSq(players[after.ball_carrier], b.x, b.y)
                = ClosestDistSq(players, b.x, b.y)
    ELSE ~after.in_possession /\ after.ball_carrier = 0

\* C27: after a team's possession update in a non-kickoff tick,
\* in_possession is true and ball_carrier is the nearest player exactly
\* when the player nearest to the ball among all players belongs to this
\* team and is closer than 2.0 m; otherwise in_possession is false and
\* there is no ball_carrier.  A ball_carrier is always a member of the
\* team's own roster.
C27_PossessionIsNearest ==
    [][/\ (obs'.op = "tick" /\ obs'.info = "none") =>
             /\ PossessionAsNearest(home_team', home_team.players,
                                    away_team.players, ball)
             /\ PossessionAsNearest(away_team', away_team.players,
                                    home_team'.players, ball)
       /\ home_team'.ball_carrier \in Indices(home_team'.players) \cup {0}
       /\ away_team'.ball_carrier \in Indices(away_team'.players) \cup {0}]_vars

\* a normal tick has run in which the away team, having the nearest player
\* within 2.0 m of the ball, took possession and the home team did not
C27_Witness ==
    /\ obs.op = "tick" /\ obs.info = "none"
    /\ away_team.in_possession /\ away_team.ball_carrier # 0
    /\ ~home_team.in_possession /\ home_team.ball_carrier = 0

(***************************************************************************)
(* The non-kicking team during a kickoff.                                  *)
(***************************************************************************)
\* a player of the non-kicking team is on the wrong side of the buffered
\* center line: x < 5 m for an away player, x > -5 m for a home player
WrongSide(team_name, p) ==
    IF team_name = "away" THEN p.x < CENTER_LINE_BUFFER
    ELSE p.x > -CENTER_LINE_BUFFER

\* after the call the wrong-side players of the opposing team aim at the
\* buffer line of their own half with y clamped to [-25, 25] m, and the
\* others keep the target they had
HeldBehindBuffer(before, after) ==
    \A i \in Indices(before.players) :
        LET p == before.players[i]
            q == after.players[i]
        IN IF WrongSide(before.team_name, p)
           THEN /\ q.tx = (IF before.team_name = "away" THEN CENTER_LINE_BUFFER
                           ELSE -CENTER_LINE_BUFFER)
                /\ q.ty = Max(-2500, Min(2500, p.y))
           ELSE q.tx = p.tx /\ q.ty = p.ty

\* C28: on every team update while the kickoff state is not none, every
\* player of the non-kicking team on the wrong side of the buffered center
\* line (x < 5 m when that team is away, x > -5 m when it is home) gets the
\* target x = +5 m or -5 m in its own half with y clamped to [-25, 25] m;
\* the players of that team already beyond the buffer are not retargeted.
C28_OpposingTeamHeld ==
    [][/\ (obs'.op = "home_kickoff_call" /\ kickoff.team = "away")
             => HeldBehindBuffer(home_team, home_team')
       /\ (obs'.op = "away_kickoff_call" /\ kickoff.team = "home")
             => HeldBehindBuffer(away_team, away_team')]_vars

\* the away team has been updated during a home kickoff with one of its
\* players inside the buffer and wide (retargeted, y clamped) and another
\* beyond the buffer (left alone)
C28_Witness ==
    /\ obs.op = "away_kickoff_call" /\ kickoff.team = "home"
    /\ \E i \in Indices(away_team.players) :
          /\ away_team.players[i].tx = CENTER_LINE_BUFFER
          /\ away_team.players[i].ty = 2500
          /\ away_team.players[i].y > 2500
    /\ \E i \in Indices(away_team.players) :
          /\ away_team.players[i].x > CENTER_LINE_BUFFER
          /\ away_team.players[i].tx # CENTER_LINE_BUFFER

\* every player of a team is in the team's own half
InOwnHalf(team) ==
    \A i \in Indices(team.players) :
        IF team.team_name = "away" THEN team.players[i].x >= 0
        ELSE team.players[i].x <= 0

\* C29: throughout every kickoff sequence (state preparing, ready or
\* active, after a match start, a match reset or a goal) every player of
\* the non-kicking team is in its own half: x >= 0 for away, x <= 0 for
\* home; so it is when the kickoff pass is struck.
C29_OpposingTeamInOwnHalf ==
    kickoff.state \in {"preparing", "ready", "active"} =>
        InOwnHalf(IF kickoff.team = "home" THEN away_team ELSE home_team)

\* the kickoff pass of a kickoff that followed a goal has just been struck
C29_Witness ==
    /\ obs.op = "tick" /\ kickoff.state = "active"
    /\ Len(goal_detector.goals_scored) > 0
    /\ ball.last_touched_by = kickoff.kicker
    /\ get_speed(ball) > 0

(***************************************************************************)
(* Kicker and receiver.                                                    *)
(***************************************************************************)
\* the roles of the players of a roster with one of the given ids
RolesOf(players, ids) ==
    {players[i].role : i \in {j \in Indices(players) : players[j].id \in ids}}

\* how many players of a roster have a role
CountOf(players, role) == Len(OfRole(players, {role}))

\* kicker and receiver of a kickoff are as the roster of the kicking team
\* requires
SelectionAsRequired(players, ko) ==
    (CountOf(players, "midfielder") + CountOf(players, "forward") >= 2) =>
        /\ ko.kicker # ko.receiver
        /\ \E i, j \in Indices(players) :
              players[i].id = ko.kicker /\ players[j].id = ko.receiver
        /\ RolesOf(players, {ko.kicker, ko.receiver})
              \subseteq {"midfielder", "forward"}
        /\ CountOf(players, "forward") >= 2 =>
              RolesOf(players, {ko.kicker, ko.receiver}) = {"forward"}
        /\ CountOf(players, "forward") = 1 =>
              /\ RolesOf(players, {ko.kicker}) = {"forward"}
              /\ RolesOf(players, {ko.receiver}) = {"midfielder"}
        /\ CountOf(players, "forward") = 0 =>
              RolesOf(players, {ko.kicker, ko.receiver}) = {"midfielder"}

\* C30: for any roster of the kickoff team with at least two
\* midfielders/forwards, kicker and receiver are two distinct players of
\* that team, neither a goalkeeper nor a defender; with two or more
\* forwards both are forwards, with exactly one forward the kicker is that
\* forward and the receiver a midfielder, with no forward both are
\* midfielders.
C30_KickerReceiverSelection ==
    [][(obs'.op = "setup_kickoff_players") =>
          SelectionAsRequired(IF obs'.info = "home" THEN home_team.players
                              ELSE away_team.players, kickoff')]_vars

\* the selection has run on a roster that has exactly one forward, standing
\* behind a midfielder in the roster, and picked the forward as kicker
C30_Witness ==
    /\ obs.op = "setup_kickoff_players" /\ obs.info = "away"
    /\ CountOf(away_team.players, "forward") = 1
    /\ Len(away_team.players) = MaxRoster
    /\ away_team.players[1].role = "midfielder"
    /\ kickoff.kicker = away_team.players[MaxRoster].id
    /\ kickoff.receiver = away_team.players[1].id

(***************************************************************************)
(* The retrieval cooldown.                                                 *)
(***************************************************************************)
\* the wall-clock time since a team's last trigger, as the tick's retrieval
\* check finds it, saturated at 4 s
SinceTrigger(team) == Min(2 * RETRIEVAL_COOLDOWN, team.since_retrieval + frame_time)

\* a tick's effect on a team's cooldown: a trigger needs 4 s since the last
\* one and restarts the cooldown, a check that returns false leaves it
\* running
CooldownGates(before, after, triggered) ==
    IF triggered
    THEN /\ SinceTrigger(before) >= 2 * RETRIEVAL_COOLDOWN
         /\ after.since_retrieval = 0
    ELSE after.since_retrieval = SinceTrigger(before)

\* C31: for each team, two ticks on which its stuck-ball retrieval triggers
\* are at least 4 s apart: within 4 s of a trigger the check returns false
\* whatever the ball does, and a check that returns false never restarts
\* the cooldown.
C31_RetrievalCooldown ==
    [][obs'.op = "tick" =>
          /\ CooldownGates(home_team, home_team', obs'.retrieval.home)
          /\ CooldownGates(away_team, away_team', obs'.retrieval.away)]_vars

\* a normal tick within 4 s of a home trigger: the ball is at rest near an
\* end of the field, a home player is the nearest and is farther than 8 m,
\* and the check returned false
C31_Witness ==
    /\ obs.op = "tick" /\ obs.info = "none" /\ obs.scored = "none"
    /\ ~obs.retrieval.home
    /\ home_team.since_retrieval > 0
    /\ home_team.since_retrieval < 2 * RETRIEVAL_COOLDOWN
    /\ get_speed(ball) = 0
    /\ ~obs.kicked
    /\ ClosestIsOurs(home_team, away_team.players, ball)
    /\ ClosestDistSq(home_team.players, ball.x, ball.y) > 800 * 800
    /\ Abs(ball.x) > 4500

(***************************************************************************)
(* The first kickoff of a match.                                           *)
(***************************************************************************)
\* the dt that has to accumulate in preparing before ready: the 2.0 s
\* window, and 1.0 s of pre-delay more at match start and after a reset
PreparingLasts == IF phase.after_goal THEN KICKOFF_PREPARATION_TIME
                  ELSE KICKOFF_PREPARATION_TIME - INITIAL_KICKOFF_TIMER

\* C32: at match start and after a match reset the kickoff begins in
\* preparing with timer -1.0, so that the first preparing phase lasts until
\* 3.0 s of dt have accumulated before the state becomes ready, whereas the
\* preparing phase after a goal lasts 2.0 s.
C32_InitialPreDelay ==
    [][/\ obs'.op = "reset" =>
             /\ kickoff'.state = "preparing"
             /\ kickoff'.timer = -1000
             /\ ~phase'.after_goal /\ phase'.elapsed = 0
       /\ (kickoff.state = "preparing" /\ ~phase.after_goal) =>
             kickoff.timer = phase.elapsed - 1000
       /\ (obs'.op = "tick" /\ obs'.scored = "none" /\ kickoff.state = "preparing") =>
             kickoff'.state = IF phase.elapsed + obs'.dt >= PreparingLasts
                              THEN "ready" ELSE "preparing"]_vars

\* the first kickoff of a match has just become ready, at a tick before
\* which less than 3.0 s and more than 2.0 s of dt had accumulated
C32_Witness ==
    /\ obs.op = "tick"
    /\ kickoff.state = "ready" /\ kickoff.timer = 0
    /\ ~phase.after_goal /\ phase.elapsed = 0
    /\ ticks * obs.dt >= 3000
    /\ (ticks - 1) * obs.dt > 2000
    /\ (ticks - 1) * obs.dt < 3000

(***************************************************************************)
(* The kicker and receiver references.                                     *)
(***************************************************************************)
\* both references name players of the kicking team
Designated(ko) ==
    LET players == IF ko.team = "home" THEN home_team.players
                   ELSE away_team.players
    IN \A id \in {ko.kicker, ko.receiver} :
          \E i \in Indices(players) : players[i].id = id

\* C33: the designated kicker and receiver references exist exactly while
\* the kickoff state is preparing, ready or active: every kickoff set up
\* sets them, they are there at every ready -> active transition, so that
\* the kickoff pass is struck by the kicker, and they are removed when the
\* state returns to none.
C33_ReferencesWhileKickoff ==
    [][/\ kickoff'.state = "none" =>
             kickoff'.kicker = NoPlayer /\ kickoff'.receiver = NoPlayer
       /\ kickoff'.state \in {"preparing", "ready", "active"} =>
             /\ kickoff'.kicker # NoPlayer /\ kickoff'.receiver # NoPlayer
             /\ Designated(kickoff)'
       /\ (kickoff.state = "ready" /\ kickoff'.state = "active") =>
             /\ kickoff.kicker # NoPlayer /\ kickoff.receiver # NoPlayer
             /\ ball'.last_touched_by = kickoff.kicker
             /\ SpeedSq(ball') > 0]_vars

\* the first kickoff of a match is over: the ball runs from the kicker's
\* pass, no player has touched it since, and the references are gone
C33_Witness ==
    /\ obs.op = "tick" /\ obs.info = "none"
    /\ kickoff.state = "none"
    /\ kickoff.kicker = NoPlayer /\ kickoff.receiver = NoPlayer
    /\ Len(goal_detector.goals_scored) = 0
    /\ ball.last_touched_by = "H10"
    /\ ~obs.kicked
    /\ get_speed(ball) > KICKOFF_END_SPEED

(***************************************************************************)
(* Match reset.                                                            *)
(***************************************************************************)
\* a team has the formation, and its players the roles, positions and
\* targets, of another
SameRoster(team, other) ==
    /\ team.formation_name = other.formation_name
    /\ Len(team.players) = Len(other.players)
    /\ \A i \in Indices(team.players) :
          /\ team.players[i].role = other.players[i].role
          /\ team.players[i].x = other.players[i].x
          /\ team.players[i].y = other.players[i].y
          /\ team.players[i].tx = other.players[i].tx
          /\ team.players[i].ty = other.players[i].ty

\* C34: after a match reset the match state is that of a freshly
\* constructed engine: score 0-0 with an empty goal list, no celebration,
\* the ball at the center at rest, the kickoff preparing for home with timer
\* -1.0, the game unpaused at speed 1.0, and both rosters with the
\* formations, player positions and targets of construction.
C34_ResetEqualsFresh ==
    [][obs'.op = "reset" =>
          /\ goal_detector' = NewWorld.gd
          /\ ball'.x = 0 /\ ball'.y = 0 /\ ball'.vx = 0 /\ ball'.vy = 0
          /\ kickoff' = NewWorld.ko
          /\ ~paused' /\ game_speed' = 10
          /\ SameRoster(home_team', NewWorld.home)
          /\ SameRoster(away_team', NewWorld.away)]_vars

\* a match in which a goal has fallen has been reset
C34_Witness ==
    /\ obs.op = "reset"
    /\ ball.last_touched_by # NoPlayer
    /\ goal_detector = NewGoalDetector

(***************************************************************************)
(* Pause.                                                                  *)
(***************************************************************************)
\* position, velocity, target and energy of every player, and the team's
\* possession, are as before
TeamUntouched(before, after) ==
    /\ after.players = before.players
    /\ after.in_possession = before.in_possession
    /\ after.ball_carrier = before.ball_carrier
    /\ after.formation_name = before.formation_name

\* C35: while the game is paused a tick changes nothing in the simulation:
\* the ball, every player's position, velocity, target and energy, both
\* possession flags, the kickoff state and timer, the scores, the goal list
\* and the celebration timer are unchanged.
C35_PausedTickChangesNothing ==
    [][obs'.op = "paused" =>
          /\ ball' = ball
          /\ TeamUntouched(home_team, home_team')
          /\ TeamUntouched(away_team, away_team')
          /\ kickoff' = kickoff
          /\ goal_detector' = goal_detector]_vars

\* a frame has passed while the game is paused in open play with the ball
\* rolling
C35_Witness ==
    /\ obs.op = "paused" /\ paused
    /\ get_speed(ball) > 0
    /\ kickoff.state = "none"

(***************************************************************************)
(* The active phase of a kickoff.                                          *)
(***************************************************************************)
\* C36: after the kickoff pass is struck on the resting ball the active phase
\* lasts exactly one tick: the pass alone leaves the ball faster than
\* 2.0 m/s, so the kickoff state is none at the end of the very next
\* unpaused tick.
C36_ActiveLastsOneTick ==
    [][/\ (obs'.op = "tick" /\ kickoff.state = "ready" /\ kickoff'.state = "active")
            => /\ get_speed(ball) = 0
               /\ get_speed(ball') > KICKOFF_END_SPEED
       /\ (obs'.op = "tick" /\ kickoff.state = "active")
            => /\ get_speed(ball) > KICKOFF_END_SPEED
               /\ kickoff'.state = "none"]_vars

\* the tick after the pass has ended the kickoff, the ball still within a
\* metre of the centre spot and faster than 2.0 m/s
C36_Witness ==
    /\ obs.op = "tick" /\ kickoff.state = "none"
    /\ get_speed(ball) > KICKOFF_END_SPEED
    /\ ball.last_touched_by # NoPlayer
    /\ ball.x # 0 /\ Abs(ball.x) < 100

(***************************************************************************)
(* The goalkeeper's target.                                                *)
(***************************************************************************)
\* every goalkeeper of the team is sent to its goal-line x, at a y within
\* 8 m of the goal's centre
GoalkeeperOnLine(team) ==
    \A i \in Indices(team.players) :
        team.players[i].role = "goalkeeper" =>
            /\ BaseSlot(team, i) # << >>
            /\ team.players[i].tx = BaseSlot(team, i)[1]
            /\ Abs(team.players[i].ty) <= 800

\* C37: at the end of every tick the goalkeeper's target has x equal to its
\* formation (goal-line) x and y within [-8, 8]; it is never the ball
\* position, stuck-ball retrieval ticks included.
C37_GoalkeeperKeepsLine ==
    [][obs'.op = "tick" =>
          GoalkeeperOnLine(home_team') /\ GoalkeeperOnLine(away_team')]_vars

\* a tick of open play after which both goalkeepers are on their lines,
\* following a ball that is off the pitch's long axis
C37_Witness ==
    /\ obs.op = "tick" /\ obs.info = "none"
    /\ ~obs.retrieval.home /\ ~obs.retrieval.away
    /\ GoalkeeperOnLine(home_team) /\ GoalkeeperOnLine(away_team)
    /\ \E i \in Indices(home_team.players) :
          home_team.players[i].role = "goalkeeper" /\ home_team.players[i].ty # 0

(***************************************************************************)
(* The safety rectangle of formation targets.                              *)
(***************************************************************************)
SafetyRectangle(p) == Abs(p.tx) <= 5000 /\ Abs(p.ty) <= 3000

\* the targets update_formation_positions has given to the team's players
\* other than goalkeepers and the retriever are inside the rectangle
AssignedInside(before, after, ball_needs_retrieval) ==
    \A i \in Indices(after.players) :
        (/\ after.players[i].role # "goalkeeper"
         /\ ~(/\ ball_needs_retrieval
              /\ i = Closest(before.players, Outfield(before.players),
                             ball.x, ball.y))
         /\ BaseSlot(after, i) # << >>)
            => SafetyRectangle(after.players[i])

\* C38: every target that formation target assignment gives to a
\* non-goalkeeper, non-retrieving player lies inside the safety rectangle
\* x in [-50, 50], y in [-30, 30], for every ball position and either
\* possession state.
C38_TargetsInsideRectangle ==
    [][obs'.op = "update_formation_positions" =>
          /\ obs'.info = "home" =>
                AssignedInside(home_team, home_team', obs'.retrieval.home)
          /\ obs'.info = "away" =>
                AssignedInside(away_team, away_team', obs'.retrieval.away)]_vars

\* the home team in possession with the ball on the touchline: a midfielder
\* chasing it has been stopped at the rectangle's edge, 30 m
C38_Witness ==
    /\ obs.op = "update_formation_positions" /\ obs.info = "home"
    /\ ~obs.retrieval.home
    /\ home_team.in_possession
    /\ ball.y = 3400
    /\ \E i \in Indices(home_team.players) :
          /\ home_team.players[i].role = "midfielder"
          /\ home_team.players[i].ty = 3000
          /\ Div(BaseSlot(home_team, i)[2] * 2 + ball.y * 8, 10) > 3000

(***************************************************************************)
(* change_formation and the players' targets.                              *)
(***************************************************************************)
\* every player of the team has a slot in the team's formation and holds
\* the target computed from it (ball at the centre, no retrieval)
TargetsRecomputed(team) ==
    \A i \in Indices(team.players) :
        /\ BaseSlot(team, i) # << >>
        /\ team.players[i] = FormationTarget(team, i, 0, 0, FALSE)

\* C39: after change_formation(name) returns, for any known formation name
\* and any existing roster, every player of the team has had its baseline
\* target recomputed from the newly selected formation.
C39_ChangeFormationRecomputesAll ==
    [][obs'.op = "change_formation" =>
          /\ obs'.args[1] = "home" =>
                /\ home_team'.formation_name = obs'.args[2]
                /\ TargetsRecomputed(home_team')
          /\ obs'.args[1] = "away" =>
                /\ away_team'.formation_name = obs'.args[2]
                /\ TargetsRecomputed(away_team')]_vars

\* a team built as 4-4-2 has been changed to 3-5-2 and back: every player
\* holds the target of its 4-4-2 slot again
C39_Witness ==
    /\ obs.op = "change_formation" /\ obs.args = <<"home", "4-4-2">>
    /\ Len(SelectSeq(home_team.players, LAMBDA p : p.role = "midfielder")) = 4
    /\ TargetsRecomputed(home_team)

(***************************************************************************)
(* Player.kick_ball.                                                       *)
(***************************************************************************)
\* the kicking range squared: (player.radius + ball.radius + 0.5)^2
KickRangeSq ==
    (PLAYER_RADIUS + BALL_RADIUS + KICK_REACH) * (PLAYER_RADIUS + BALL_RADIUS + KICK_REACH)

\* C40: Player.kick_ball on a ball farther than player.radius + ball.radius
\* + 0.5 from the player returns False and leaves the ball's velocity and
\* last_touched_by and the player's energy and action unchanged; on a ball
\* within that range it returns True, sets last_touched_by to the player,
\* lowers the player's energy by 5 * power (not below 0) and sets the action
\* to kicking.
C40_KickBallRange ==
    [][obs'.op = "kick_ball" =>
          LET p == home_team.players[Kicker]
              q == home_team'.players[Kicker]
              power == obs'.args[1]
          IN IF DistSq(p, ball.x, ball.y) > KickRangeSq
             THEN /\ ~obs'.kicked
                  /\ ball'.vx = ball.vx /\ ball'.vy = ball.vy
                  /\ ball'.last_touched_by = ball.last_touched_by
                  /\ q.energy = p.energy /\ q.action = p.action
             ELSE /\ obs'.kicked
                  /\ ball'.last_touched_by = p.id
                  /\ q.energy = Max(0, p.energy - 50 * power)
                  /\ q.action = "kicking"]_vars

\* a full-power kick of a ball exactly at the range's limit by a player with
\* no more energy left than the kick costs: the kick is made, the energy is 0
C40_Witness ==
    /\ obs.op = "kick_ball" /\ obs.kicked /\ obs.args = <<10>>
    /\ DistSq(home_team.players[Kicker], ball.x, ball.y) = KickRangeSq
    /\ ball.last_touched_by = home_team.players[Kicker].id
    /\ home_team.players[Kicker].energy = 0
    /\ home_team.players[Kicker].action = "kicking"
    /\ calls = 1

====
